---- MODULE Spec2Model ----
(***************************************************************************)
(* canvas-csv-matcher: matching the rows of a CSV against two rosters of   *)
(* Canvas users (students and teaching team members).                      *)
(*                                                                         *)
(* Strings are sequences of one-character strings, so that trim,           *)
(* toLowerCase and String() are computed and not assumed.  The value       *)
(* `undefined` of a property is the one-element sequence Undef, which is   *)
(* no string of characters.  Canvas ids are positive numbers.              *)
(***************************************************************************)
EXTENDS Integers, Sequences, FiniteSets, TLC

(***************************************************************************)
(* Bounds of the model                                                     *)
(***************************************************************************)
\* users in the roster given to the normalizer / the field index alone
MaxUsers == 2
\* users in the roster given to the field index alone
MaxIndexUsers == 3
\* iterations of the duplicate-removal loop that are observed
MaxIter == 7
\* rows of the CSV in a whole run
MaxRows == 2
\* rows of the CSV when the rosters are fixed
MaxTableRows == 3
\* words in the name of the user whose bag of words is large
MaxWords == 35
\* rows of the CSV when only the columns are classified
MaxColRows == 10

VARIABLES
  pc,                           \* position in module.exports of index.js
  target,                       \* the roster preProcessUsers is working on
  optStudents,                  \* opts.students
  optTeachingTeamMembers,       \* opts.teachingTeamMembers
  headers,                      \* csv.headers
  rows,                         \* csv.rows
  studentOnlyOnce,              \* opts.studentOnlyOnce
  teachingTeamMemberOnlyOnce,   \* opts.teachingTeamMemberOnlyOnce
  optNumStudentsPerRow,         \* opts.numStudentsPerRow
  optNumTeachingTeamMembersPerRow, \* opts.numTeachingTeamMembersPerRow
  numStudentsPerRow,
  numTeachingTeamMembersPerRow,
  simpleObjects,                \* preProcessUsers: simpleObjects
  stillSearchingForDups,        \* preProcessUsers: stillSearchingForDups
  iterations,                   \* passes of the while loop made so far
  students,
  teachingTeamMembers,
  users,                        \* genPropToCellToUser: users
  inserted,                     \* genPropToCellToUser: users already visited
  propToCellToUser,             \* genPropToCellToUser: propToCellToUser
  pods,                         \* the field index of each roster
  colIndexToTypeAndProp,
  rowMatches,
  isDisqualified,
  matchedRows,
  unmatchedRows,
  usersToExclude,
  dataHeaders,
  colTypes

optVars == <<optStudents, optTeachingTeamMembers, headers, rows,
             studentOnlyOnce, teachingTeamMemberOnlyOnce,
             optNumStudentsPerRow, optNumTeachingTeamMembersPerRow>>
numVars == <<numStudentsPerRow, numTeachingTeamMembersPerRow>>
preVars == <<simpleObjects, stillSearchingForDups, iterations>>
userVars == <<students, teachingTeamMembers>>
indexVars == <<users, inserted, propToCellToUser>>
rowVars == <<pods, colIndexToTypeAndProp, rowMatches, isDisqualified,
             matchedRows, unmatchedRows>>
outVars == <<usersToExclude, dataHeaders, colTypes>>
vars == <<pc, target, optVars, numVars, preVars, userVars, indexVars, rowVars,
          outVars>>

(***************************************************************************)
(* JavaScript values and strings                                           *)
(***************************************************************************)
Undef == <<"#undefined">>
\* null and undefined where the other values are objects
Null == [null |-> TRUE]
Undefined == [undefined |-> TRUE]
NoProp == "#null"

UndefinedStr == <<"u", "n", "d", "e", "f", "i", "n", "e", "d">>
Digits == <<"1", "2", "3", "4", "5", "6", "7", "8", "9">>

\* String(n) of a number 1..9
NumStr(n) == <<Digits[n]>>

\* the capital letters and what String.prototype.toLowerCase makes of them
LowerOf ==
  [A |-> "a", B |-> "b", C |-> "c", D |-> "d", E |-> "e", F |-> "f", G |->
   "g", H |-> "h", I |-> "i", J |-> "j", K |-> "k", L |-> "l", M |-> "m",
   N |-> "n", O |-> "o", P |-> "p", Q |-> "q", R |-> "r", S |-> "s", T |->
   "t", U |-> "u", V |-> "v", W |-> "w", X |-> "x", Y |-> "y", Z |-> "z"]

\* toLowerCase of one character: the strings of the model hold no letter
\* outside A-Z and a-z
LowerChar(c) == IF c \in DOMAIN LowerOf THEN LowerOf[c] ELSE c

ToLowerCase(s) == [i \in 1..Len(s) |-> LowerChar(s[i])]

RECURSIVE TrimStart(_)
TrimStart(s) ==
  IF s # <<>> /\ Head(s) = " " THEN TrimStart(Tail(s)) ELSE s

RECURSIVE TrimEnd(_)
TrimEnd(s) ==
  IF s # <<>> /\ s[Len(s)] = " " THEN TrimEnd(SubSeq(s, 1, Len(s) - 1)) ELSE s

Trim(s) == TrimEnd(TrimStart(s))

(***************************************************************************)
(* preProcess/users.js                                                     *)
(***************************************************************************)
\* Object.keys of a simple object, in insertion order
Props == <<"canvasId", "fullName", "sortableName", "sisUserId", "loginId", "email">>

\* String(v || '') of a raw field: a missing field and '' both give ''
StringOrEmpty(v) == IF v = Undef THEN <<>> ELSE v

SimpleObject(user) ==
  [canvasId |-> user.id,
   fullName |-> ToLowerCase(StringOrEmpty(user.name)),
   sortableName |-> ToLowerCase(StringOrEmpty(user.sortable_name)),
   sisUserId |-> ToLowerCase(StringOrEmpty(user.sis_user_id)),
   loginId |-> ToLowerCase(StringOrEmpty(user.login_id)),
   email |-> ToLowerCase(StringOrEmpty(user.email))]

SimpleObjects(raw) == [k \in 1..Len(raw) |-> SimpleObject(raw[k])]

\* obj[firstProp] === obj[secondProp]: canvasId is a number, every other
\* property a string or undefined, so canvasId is strictly equal to none
StrictEqualProps(obj, firstProp, secondProp) ==
  IF firstProp = "canvasId" \/ secondProp = "canvasId"
    THEN FALSE
    ELSE obj[firstProp] = obj[secondProp]

IsDuplicate(simple, i, j) ==
  \A k \in 1..Len(simple) : StrictEqualProps(simple[k], Props[i], Props[j])

\* the first prop of the first duplicate pair in the place of the second
FindFirstPropOfDuplicate(simple) ==
  IF Len(simple) = 0
    THEN NoProp
    ELSE LET dups == {p \in (1..Len(Props)) \X (1..Len(Props)) :
                        p[1] < p[2] /\ IsDuplicate(simple, p[1], p[2])}
         IN IF dups = {}
              THEN NoProp
              ELSE Props[CHOOSE a \in {p[1] : p \in dups} :
                           \A b \in {p[1] : p \in dups} : a <= b]

FindSecondPropOfDuplicate(simple) ==
  IF Len(simple) = 0
    THEN NoProp
    ELSE LET dups == {p \in (1..Len(Props)) \X (1..Len(Props)) :
                        p[1] < p[2] /\ IsDuplicate(simple, p[1], p[2])}
         IN IF dups = {}
              THEN NoProp
              ELSE LET i == CHOOSE a \in {p[1] : p \in dups} :
                              \A b \in {p[1] : p \in dups} : a <= b
                       j == CHOOSE a \in {p[2] : p \in {q \in dups : q[1] = i}} :
                              \A b \in {p[2] : p \in {q \in dups : q[1] = i}} : a <= b
                   IN Props[j]

\* newObj[secondProp] = undefined, for every object
RemoveProp(simple, secondProp) ==
  [k \in 1..Len(simple) |-> [simple[k] EXCEPT ![secondProp] = Undef]]

(***************************************************************************)
(* preProcess/csv.js: the rows of a csv given as { headers, rows }         *)
(***************************************************************************)
\* csv.js 70-80: the row is not empty and has a cell that is not blank
HasContent(row) ==
  Len(row) > 0 /\ \E c \in 1..Len(row) : Len(Trim(row[c])) > 0

\* csv.js 83-85: the row has as many cells as there are headers
HasLengthOf(theHeaders, row) == Len(row) = Len(theHeaders)

RECURSIVE FilterRows(_, _, _)
FilterRows(theHeaders, rawRows, k) ==
  IF k > Len(rawRows) THEN <<>>
  ELSE (IF HasContent(rawRows[k]) /\ HasLengthOf(theHeaders, rawRows[k])
          THEN <<rawRows[k]>> ELSE <<>>)
         \o FilterRows(theHeaders, rawRows, k + 1)

\* the rows preProcessCSV returns for a csv object with headers and rows:
\* the rows without content and the rows of another length are removed
PreProcessCSV(theHeaders, rawRows) == FilterRows(theHeaders, rawRows, 1)

(***************************************************************************)
(* helpers/genPropToCellToUser.js                                          *)
(***************************************************************************)
\* String(user[prop])
PropString(user, prop) ==
  IF prop = "canvasId" THEN NumStr(user.canvasId)
  ELSE IF user[prop] = Undef THEN UndefinedStr
  ELSE user[prop]

CellOfProp(user, prop) == ToLowerCase(Trim(PropString(user, prop)))

\* propToCellToUser[prop] and wordInRow are plain objects: a key that is not
\* an own key is read along the prototype chain, which ends in
\* Object.prototype. The names of the members of Object.prototype:
ProtoKey == <<"_", "_", "p", "r", "o", "t", "o", "_", "_">>

ObjectPrototypeNames ==
  {<<"c", "o", "n", "s", "t", "r", "u", "c", "t", "o", "r">>,
   <<"_", "_", "p", "r", "o", "t", "o", "_", "_">>,
   <<"t", "o", "S", "t", "r", "i", "n", "g">>,
   <<"v", "a", "l", "u", "e", "O", "f">>,
   <<"h", "a", "s", "O", "w", "n", "P", "r", "o", "p", "e", "r", "t", "y">>,
   <<"i", "s", "P", "r", "o", "t", "o", "t", "y", "p", "e", "O", "f">>,
   <<"p", "r", "o", "p", "e", "r", "t", "y", "I", "s", "E", "n", "u", "m", "e", "r", "a", "b", "l", "e">>,
   <<"t", "o", "L", "o", "c", "a", "l", "e", "S", "t", "r", "i", "n", "g">>,
   <<"_", "_", "d", "e", "f", "i", "n", "e", "G", "e", "t", "t", "e", "r", "_", "_">>,
   <<"_", "_", "d", "e", "f", "i", "n", "e", "S", "e", "t", "t", "e", "r", "_", "_">>,
   <<"_", "_", "l", "o", "o", "k", "u", "p", "G", "e", "t", "t", "e", "r", "_", "_">>,
   <<"_", "_", "l", "o", "o", "k", "u", "p", "S", "e", "t", "t", "e", "r", "_", "_">>}

\* the names of the properties of a simple object, as keys
PropName ==
  [canvasId |-> <<"c", "a", "n", "v", "a", "s", "I", "d">>,
   fullName |-> <<"f", "u", "l", "l", "N", "a", "m", "e">>,
   sortableName |-> <<"s", "o", "r", "t", "a", "b", "l", "e", "N", "a", "m", "e">>,
   sisUserId |-> <<"s", "i", "s", "U", "s", "e", "r", "I", "d">>,
   loginId |-> <<"l", "o", "g", "i", "n", "I", "d">>,
   email |-> <<"e", "m", "a", "i", "l">>]

\* user.canvasId of a value that is not a user: undefined, written 0 (the
\* key "undefined" of alreadySeen, isDisqualified and userIsExcluded)
NoId == 0

\* a value that is not a user: each property of a user read on it is
\* undefined
NotAUser(what) ==
  [canvasId |-> NoId, fullName |-> Undef, sortableName |-> Undef,
   sisUserId |-> Undef, loginId |-> Undef, email |-> Undef, what |-> what]

\* the object Object.prototype
ObjectPrototype == NotAUser(<<"Object.prototype">>)

\* the member of Object.prototype of that name: the accessor __proto__ is
\* read through Get, every other member is a function
Member(name) == NotAUser(<<"function">> \o name)

\* a string and a number read from a property of a user
StringValue(s) == NotAUser(<<"string">> \o s)
NumberValue(n) == NotAUser(<<"number", Digits[n]>>)

\* {}: no own key, the prototype is Object.prototype
EmptyObject == [own |-> <<>>, proto |-> ObjectPrototype]

\* user[prop] as the value of a read
PropValue(user, prop) ==
  IF prop = "canvasId" THEN NumberValue(user.canvasId)
  ELSE IF user[prop] = Undef THEN Undefined
  ELSE StringValue(user[prop])

\* obj[key]: the own property, else the property found along the prototype
\* chain. The prototype of a map of the index is Object.prototype until a
\* write to __proto__ replaces it by a user (whose prototype is
\* Object.prototype) or by null; the getter of __proto__ gives the
\* prototype of the object.
Get(obj, key) ==
  IF key \in DOMAIN obj.own THEN obj.own[key]
  ELSE IF obj.proto = Null THEN Undefined
  ELSE IF key = ProtoKey THEN obj.proto
  ELSE IF obj.proto # ObjectPrototype /\ \E p \in DOMAIN PropName : PropName[p] = key
    THEN PropValue(obj.proto, CHOOSE p \in DOMAIN PropName : PropName[p] = key)
  ELSE IF key \in ObjectPrototypeNames THEN Member(key)
  ELSE Undefined

\* obj[key] = value, for a value that is an object or null: the setter of
\* __proto__, inherited from Object.prototype, replaces the prototype and
\* adds no key; every other write sets an own property
Put(obj, key, value) ==
  IF key = ProtoKey /\ key \notin DOMAIN obj.own /\ obj.proto # Null
    THEN [obj EXCEPT !.proto = value]
    ELSE IF key \in DOMAIN obj.own
      THEN [obj EXCEPT !.own[key] = value]
      ELSE [obj EXCEPT !.own = obj.own @@ (key :> value)]

\* propToCellToUser[prop][cell], undefined when the key is missing from the
\* map and from its prototype chain
Lookup(index, prop, cell) ==
  IF prop \notin DOMAIN index THEN Undefined
  ELSE Get(index[prop], cell)

\* an object is truthy; null, undefined and the empty string are not
Truthy(entry) ==
  entry # Undefined /\ entry # Null /\ entry # StringValue(<<>>)

\* genPropToCellToUser.js 21-23: propToCellToUser[prop] = {} when it is
\* undefined
InitMap(index, prop) ==
  IF prop \in DOMAIN index THEN index ELSE index @@ (prop :> EmptyObject)

\* propToCellToUser[prop][cell] = entry
SetEntry(index, prop, cell, entry) ==
  LET maps == InitMap(index, prop)
  IN [maps EXCEPT ![prop] = Put(maps[prop], cell, entry)]

\* the body of Object.keys(user).forEach for one property
InsertProp(index, user, prop) ==
  LET cell == CellOfProp(user, prop)
      maps == InitMap(index, prop)
  IN IF Truthy(Lookup(maps, prop, cell))
       THEN SetEntry(maps, prop, cell, Null)
       ELSE SetEntry(maps, prop, cell, user)

RECURSIVE InsertProps(_, _, _)
InsertProps(index, user, k) ==
  IF k > Len(Props) THEN index
  ELSE LET next == InsertProp(index, user, Props[k])
       IN \* the map of the property exists from here on; the test has the
          \* index evaluated before the next property is inserted
          IF Props[k] \in DOMAIN next
            THEN InsertProps(next, user, k + 1)
            ELSE next

\* the body of users.forEach for one user
InsertUser(index, user) == InsertProps(index, user, 1)

RECURSIVE InsertUsers(_, _, _)
InsertUsers(index, list, k) ==
  IF k > Len(list) THEN index
  ELSE InsertUsers(InsertUser(index, list[k]), list, k + 1)

GenPropToCellToUser(list) == InsertUsers(<<>>, list, 1)

(***************************************************************************)
(* index.js: constants and genNumPerRowErrorMessage                        *)
(***************************************************************************)
\* a number, a string and NaN as values of one variable
Num(n) == <<"number", n>>
Str(s) == <<"string", s>>
NaN == <<"NaN">>

ANY_NUMBER == Str("any")
AT_LEAST_ONE == Str("at-least-one")
AUTO_DETECT == Str("auto-detect")

DATA == "data"
STUDENT == "student"
TEACHING_TEAM_MEMBER == "teaching team member"

\* genNumPerRowErrorMessage with one user too many let through
GenNumPerRowErrorMessageOffByOne(type, expected, actual) ==
  IF expected = ANY_NUMBER THEN Null
  ELSE IF expected = AT_LEAST_ONE
    THEN IF actual >= 0
           THEN Null
           ELSE [kind |-> "at least one", type |-> type]
  ELSE IF expected = Num(actual) \/ expected = Num(actual - 1)
    THEN Null
    ELSE [kind |-> "number per row", type |-> type,
          expected |-> expected, actual |-> actual]

\* the message of genNumPerRowErrorMessage, Null for no error
GenNumPerRowErrorMessage(type, expected, actual) ==
  IF expected = ANY_NUMBER THEN Null
  ELSE IF expected = AT_LEAST_ONE
    THEN IF actual # 0 /\ actual > 0
           THEN Null
           ELSE [kind |-> "at least one", type |-> type]
  ELSE IF expected = Num(actual)
    THEN Null
    ELSE [kind |-> "number per row", type |-> type,
          expected |-> expected, actual |-> actual]

(***************************************************************************)
(* genSearchFunctions.js: getMatch                                         *)
(***************************************************************************)
\* getMatch(prop, cell) of the search functions whose propToCellToUser is
\* the index
GetMatch(index, prop, cell) ==
  IF ~Truthy(Lookup(index, prop, cell)) THEN Null
  ELSE Lookup(index, prop, cell)

(***************************************************************************)
(* index.js: column types                                                  *)
(***************************************************************************)
\* Object.keys(propToCellToUser): no key for an empty list, else the keys
\* of the simple objects
IndexProps(index) == IF DOMAIN index = {} THEN <<>> ELSE Props

\* index.js 134-143
Pods(studentList, teachingTeamList) ==
  <<[propToCellToUser |-> GenPropToCellToUser(studentList), type |-> STUDENT],
    [propToCellToUser |-> GenPropToCellToUser(teachingTeamList),
     type |-> TEACHING_TEAM_MEMBER]>>

Cells(colIndex) == [r \in 1..Len(rows) |-> rows[r][colIndex]]

NumMatching(index, prop, cells) ==
  Cardinality({r \in 1..Len(cells) :
                 Truthy(Lookup(index, prop, ToLowerCase(Trim(cells[r]))))})

NumNonempty(cells) ==
  Cardinality({r \in 1..Len(cells) : Len(Trim(cells[r])) > 0})

\* a bar of 100%: every cell that is not empty has to match
MinToMatchAll(cells) == NumNonempty(cells)

\* Math.floor(numNonempty * 0.4)
MinToMatch(cells) == (NumNonempty(cells) * 2) \div 5

PodTypeData(pod, cells) ==
  [k \in 1..Len(IndexProps(pod.propToCellToUser)) |->
     [type |-> pod.type, prop |-> IndexProps(pod.propToCellToUser)[k],
      minToMatch |-> MinToMatch(cells),
      numMatching |-> NumMatching(pod.propToCellToUser,
                                  IndexProps(pod.propToCellToUser)[k], cells)]]

TypeData(thePods, cells) ==
  PodTypeData(thePods[1], cells) \o PodTypeData(thePods[2], cells)

\* a comparator without the case of equal numbers: -1 for a tie
CompareTypeDataWithoutTies(a, b) ==
  IF a.numMatching < b.numMatching THEN 1 ELSE 0 - 1

\* the comparator of index.js 189-197
CompareTypeData(a, b) ==
  IF a.numMatching < b.numMatching THEN 1
  ELSE IF a.numMatching > b.numMatching THEN 0 - 1
  ELSE 0

(* typeData.sort: Array.prototype.sort as node runs it for fewer than 64     *)
(* elements (typeData has at most 12). The run that starts the array is      *)
(* taken as it is, or reversed when it is strictly descending for the        *)
(* comparator, and every later element is put into it by a binary search.    *)

\* the first two entries are in the wrong order for the comparator
TypeDataIsDescending(typeData) ==
  Len(typeData) >= 2 /\ CompareTypeData(typeData[2], typeData[1]) < 0

\* CountAndMakeRun: the last entry of the run, looking at typeData[k]
RECURSIVE TypeDataRunLengthFrom(_, _, _)
TypeDataRunLengthFrom(typeData, k, isDescending) ==
  IF k > Len(typeData) THEN k - 1
  ELSE LET order == CompareTypeData(typeData[k], typeData[k - 1])
       IN IF (isDescending /\ order >= 0) \/ (~isDescending /\ order < 0)
            THEN k - 1
            ELSE TypeDataRunLengthFrom(typeData, k + 1, isDescending)

TypeDataRunLength(typeData) ==
  IF Len(typeData) < 2 THEN Len(typeData)
  ELSE TypeDataRunLengthFrom(typeData, 3, TypeDataIsDescending(typeData))

\* the run that starts typeData, reversed when it is descending
TypeDataMadeRun(typeData) ==
  LET run == SubSeq(typeData, 1, TypeDataRunLength(typeData))
  IN IF TypeDataIsDescending(typeData)
       THEN [k \in 1..Len(run) |-> run[Len(run) + 1 - k]]
       ELSE run

\* the binary search of BinaryInsertionSort, left and right counted from 0
RECURSIVE TypeDataInsertionPoint(_, _, _, _)
TypeDataInsertionPoint(sorted, x, left, right) ==
  IF left >= right THEN left
  ELSE LET mid == left + ((right - left) \div 2)
       IN IF CompareTypeData(x, sorted[mid + 1]) < 0
            THEN TypeDataInsertionPoint(sorted, x, left, mid)
            ELSE TypeDataInsertionPoint(sorted, x, mid + 1, right)

\* one step of BinaryInsertionSort: the pivot x is put into the sorted part
InsertTypeData(sorted, x) ==
  LET pos == TypeDataInsertionPoint(sorted, x, 0, Len(sorted))
  IN SubSeq(sorted, 1, pos) \o <<x>> \o SubSeq(sorted, pos + 1, Len(sorted))

\* BinaryInsertionSort from typeData[k] on
RECURSIVE InsertAllTypeData(_, _, _)
InsertAllTypeData(typeData, k, sorted) ==
  IF k > Len(typeData) THEN sorted
  ELSE InsertAllTypeData(typeData, k + 1, InsertTypeData(sorted, typeData[k]))

\* typeData.sort of index.js 189-197
SortTypeData(typeData) ==
  InsertAllTypeData(typeData, TypeDataRunLength(typeData) + 1,
                    TypeDataMadeRun(typeData))

\* index.js 200: typeData[0] after the sort
BestMatch(typeData) == SortTypeData(typeData)[1]

TypeAndProp(thePods, cells) ==
  LET bestMatch == BestMatch(TypeData(thePods, cells))
  IN IF bestMatch.numMatching < bestMatch.minToMatch
       THEN [type |-> DATA, prop |-> NoProp]
       ELSE [type |-> bestMatch.type, prop |-> bestMatch.prop]

(***************************************************************************)
(* index.js: matching of the rows                                          *)
(***************************************************************************)
\* Set.add, with the order of insertion kept
SetAdd(seq, x) == IF \E k \in 1..Len(seq) : seq[k] = x THEN seq ELSE Append(seq, x)

\* searchFunction[type]: its propToCellToUser is the one of the pod
SearchIndex(thePods, type) ==
  IF type = STUDENT THEN thePods[1].propToCellToUser ELSE thePods[2].propToCellToUser

RECURSIVE RowMatchFrom(_, _, _, _, _)
RowMatchFrom(thePods, row, typeOfCol, colIndex, acc) ==
  IF colIndex > Len(row) THEN acc
  ELSE LET type == typeOfCol[colIndex].type
           prop == typeOfCol[colIndex].prop
           match == IF type = DATA THEN Null
                    ELSE GetMatch(SearchIndex(thePods, type), prop, row[colIndex])
           next == IF match = Null THEN acc
                   ELSE IF type = STUDENT
                     THEN [acc EXCEPT !.students = SetAdd(@, match)]
                     ELSE [acc EXCEPT !.teachingTeamMembers = SetAdd(@, match)]
       IN RowMatchFrom(thePods, row, typeOfCol, colIndex + 1, next)

RowMatch(thePods, row, typeOfCol) ==
  RowMatchFrom(thePods, row, typeOfCol, 1,
               [students |-> <<>>, teachingTeamMembers |-> <<>>])

(***************************************************************************)
(* index.js: number of people per row                                      *)
(***************************************************************************)
RECURSIVE SumOver(_, _)
SumOver(f, S) ==
  IF S = {} THEN 0
  ELSE LET k == CHOOSE k \in S : TRUE IN f[k] + SumOver(f, S \ {k})

\* the rows that have at least one match
RowsInCount(matches) ==
  {r \in 1..Len(matches) :
     Len(matches[r].students) > 0 \/ Len(matches[r].teachingTeamMembers) > 0}

TotalNumStudents(matches) ==
  SumOver([r \in 1..Len(matches) |-> Len(matches[r].students)], RowsInCount(matches))

TotalNumTeachingTeamMembers(matches) ==
  SumOver([r \in 1..Len(matches) |-> Len(matches[r].teachingTeamMembers)],
          RowsInCount(matches))

\* Math.floor in the place of Math.round
FlooredAverage(total, numRowsInCount) ==
  IF numRowsInCount = 0 THEN NaN
  ELSE Num(total \div numRowsInCount)

\* 0 in the place of NaN
RoundedAverageOrZero(total, numRowsInCount) ==
  IF numRowsInCount = 0 THEN Num(0)
  ELSE Num((2 * total + numRowsInCount) \div (2 * numRowsInCount))

\* Math.round(total / numRowsInCount): NaN for 0 / 0, else half rounds up
RoundedAverage(total, numRowsInCount) ==
  IF numRowsInCount = 0 THEN NaN
  ELSE Num((2 * total + numRowsInCount) \div (2 * numRowsInCount))

(***************************************************************************)
(* index.js: the only-once rule                                            *)
(***************************************************************************)
UsersOfType(rowMatch, type) ==
  IF type = STUDENT THEN rowMatch.students ELSE rowMatch.teachingTeamMembers

RECURSIVE Flatten(_, _, _)
Flatten(matches, type, r) ==
  IF r > Len(matches) THEN <<>>
  ELSE UsersOfType(matches[r], type) \o Flatten(matches, type, r + 1)

DisqualifiedMessage(type, user) ==
  [kind |-> "only once", type |-> type, name |-> user.fullName]

\* rowMatches.forEach / users.forEach of findDisqualified over the users in
\* the order they are visited
RECURSIVE MarkSeen(_, _, _, _, _)
MarkSeen(seq, k, type, alreadySeen, disq) ==
  IF k > Len(seq) THEN disq
  ELSE LET id == seq[k].canvasId
       IN IF id \in alreadySeen
            THEN MarkSeen(seq, k + 1, type, alreadySeen,
                          [c \in (DOMAIN disq) \cup {id} |->
                             IF c = id THEN DisqualifiedMessage(type, seq[k])
                             ELSE disq[c]])
            ELSE MarkSeen(seq, k + 1, type, alreadySeen \cup {id}, disq)

FindDisqualified(matches, type, disq) ==
  MarkSeen(Flatten(matches, type, 1), 1, type, {}, disq)

(***************************************************************************)
(* index.js: matched and unmatched rows                                    *)
(***************************************************************************)
RECURSIVE DisqualifiedErrors(_, _, _)
DisqualifiedErrors(seq, k, disq) ==
  IF k > Len(seq) THEN <<>>
  ELSE (IF seq[k].canvasId \in DOMAIN disq THEN <<disq[seq[k].canvasId]>> ELSE <<>>)
         \o DisqualifiedErrors(seq, k + 1, disq)

ErrorIfAny(message) == IF message = Null THEN <<>> ELSE <<message>>

\* the first error only
FirstUnmatchedError(rowMatch, disq, numS, numT) ==
  LET all == DisqualifiedErrors(rowMatch.students \o rowMatch.teachingTeamMembers,
                                1, disq)
               \o ErrorIfAny(GenNumPerRowErrorMessage(STUDENT, numS,
                                                       Len(rowMatch.students)))
               \o ErrorIfAny(GenNumPerRowErrorMessage(TEACHING_TEAM_MEMBER, numT,
                                                       Len(rowMatch.teachingTeamMembers)))
  IN IF Len(all) = 0 THEN <<>> ELSE <<all[1]>>

UnmatchedErrors(rowMatch, disq, numS, numT) ==
  DisqualifiedErrors(rowMatch.students \o rowMatch.teachingTeamMembers, 1, disq)
    \o ErrorIfAny(GenNumPerRowErrorMessage(STUDENT, numS, Len(rowMatch.students)))
    \o ErrorIfAny(GenNumPerRowErrorMessage(TEACHING_TEAM_MEMBER, numT,
                                           Len(rowMatch.teachingTeamMembers)))

RECURSIVE FilterData(_, _, _)
FilterData(row, typeOfCol, colIndex) ==
  IF colIndex > Len(row) THEN <<>>
  ELSE (IF typeOfCol[colIndex].type = DATA THEN <<row[colIndex]>> ELSE <<>>)
         \o FilterData(row, typeOfCol, colIndex + 1)

\* every cell of the row
AllColumns(rawRow, typeOfCol) == rawRow

DataColumns(rawRow, typeOfCol) == FilterData(rawRow, typeOfCol, 1)

\* the number of teaching team members left unchecked
IsUnmatchedByStudents(rowMatch, disq, numS, numT) ==
  Len(UnmatchedErrors(rowMatch, disq, numS, ANY_NUMBER)) > 0

IsUnmatched(rowMatch, disq, numS, numT) ==
  Len(UnmatchedErrors(rowMatch, disq, numS, numT)) > 0

\* the matched rows with the rows counted from 1
RECURSIVE MatchedRowsCountedFromOne(_)
MatchedRowsCountedFromOne(i) ==
  IF i > Len(rowMatches) THEN <<>>
  ELSE (IF IsUnmatched(rowMatches[i], isDisqualified,
                       numStudentsPerRow, numTeachingTeamMembersPerRow)
          THEN <<>>
          ELSE <<[rawRow |-> rows[i],
                  dataColumns |-> DataColumns(rows[i], colIndexToTypeAndProp),
                  students |-> rowMatches[i].students,
                  teachingTeamMembers |-> rowMatches[i].teachingTeamMembers,
                  rowIndex |-> i]>>)
         \o MatchedRowsCountedFromOne(i + 1)

RECURSIVE MatchedRowsFrom(_)
MatchedRowsFrom(i) ==
  IF i > Len(rowMatches) THEN <<>>
  ELSE (IF IsUnmatched(rowMatches[i], isDisqualified,
                       numStudentsPerRow, numTeachingTeamMembersPerRow)
          THEN <<>>
          ELSE <<[rawRow |-> rows[i],
                  dataColumns |-> DataColumns(rows[i], colIndexToTypeAndProp),
                  students |-> rowMatches[i].students,
                  teachingTeamMembers |-> rowMatches[i].teachingTeamMembers,
                  rowIndex |-> i - 1]>>)
         \o MatchedRowsFrom(i + 1)

RECURSIVE UnmatchedRowsFrom(_)
UnmatchedRowsFrom(i) ==
  IF i > Len(rowMatches) THEN <<>>
  ELSE (IF IsUnmatched(rowMatches[i], isDisqualified,
                       numStudentsPerRow, numTeachingTeamMembersPerRow)
          THEN <<[rawRow |-> rows[i],
                  dataColumns |-> DataColumns(rows[i], colIndexToTypeAndProp),
                  errors |-> UnmatchedErrors(rowMatches[i], isDisqualified,
                               numStudentsPerRow, numTeachingTeamMembersPerRow),
                  rowIndex |-> i - 1]>>
          ELSE <<>>)
         \o UnmatchedRowsFrom(i + 1)

(***************************************************************************)
(* genSearchFunctions.js: bags of words and getConfidenceRatings           *)
(***************************************************************************)
\* the position of the i-th space of the string; 0 before the first one and
\* the position after the string for the one after the last
SpaceAt(s, i) ==
  LET spaces == {k \in 1..Len(s) : s[k] = " "}
  IN IF i = 0 THEN 0
     ELSE IF i > Cardinality(spaces) THEN Len(s) + 1
     ELSE CHOOSE k \in spaces : Cardinality({j \in spaces : j < k}) = i - 1

\* String.split(' '): the pieces between the spaces, the empty ones too
Split(s) ==
  [i \in 1..(Cardinality({k \in 1..Len(s) : s[k] = " "}) + 1) |->
     SubSeq(s, SpaceAt(s, i - 1) + 1, SpaceAt(s, i) - 1)]

\* the words of a string, the empty ones skipped
Words(s) == {Split(s)[k] : k \in 1..Len(Split(s))} \ {<<>>}

\* genSearchFunctions.js 17-32: the words of Object.values(user)
BagOfWords(user) ==
  UNION {Words(Trim(ToLowerCase(PropString(user, Props[k])))) : k \in 1..Len(Props)}

\* genSearchFunctions.js 14-34: the bag of the last user of each canvasId
IdToBagOfWords(list) ==
  [id \in {list[k].canvasId : k \in 1..Len(list)} |->
     BagOfWords(list[CHOOSE k \in 1..Len(list) :
                       /\ list[k].canvasId = id
                       /\ \A m \in (k + 1)..Len(list) : list[m].canvasId # id])]

\* genSearchFunctions.js 67-70: the users of the model have a canvasId that
\* is not 0, so user.canvasId || user.id is the canvasId
UserIsExcluded(excluded) == {excluded[k].canvasId : k \in 1..Len(excluded)}

\* genSearchFunctions.js 73-89: the own keys of wordInRow. The write
\* wordInRow['__proto__'] = true goes to the setter of Object.prototype,
\* which ignores a value that is not an object: it adds no key
WordInRow(row) ==
  UNION {Words(ToLowerCase(Trim(row[c]))) : c \in 1..Len(row)} \ {ProtoKey}

\* wordInRow[word] is truthy: true for an own key, the inherited member for
\* a word that names a member of Object.prototype
HasWord(wordInRow, word) ==
  word \in wordInRow \/ word \in ObjectPrototypeNames

\* genSearchFunctions.js 92-94
RECURSIVE UsersToInclude(_, _, _)
UsersToInclude(list, excluded, k) ==
  IF k > Len(list) THEN <<>>
  ELSE (IF list[k].canvasId \in UserIsExcluded(excluded) THEN <<>> ELSE <<list[k]>>)
         \o UsersToInclude(list, excluded, k + 1)

RECURSIVE Gcd(_, _)
Gcd(a, b) == IF b = 0 THEN a ELSE Gcd(b, a % b)

\* the shares numMatching / size, in lowest terms, that are half way between
\* two percentages and for which (numMatching / size) * 100 in double
\* precision is just below the half: 23 / 40 * 100 is 57.49999999999999.
\* Every other share half way (of denominator 8, 40 or 200) gives the exact
\* half or more, and a share that is not half way is further from the half
\* than the error of the two operations.
RoundedDown == {<<23, 40>>, <<29, 200>>, <<57, 200>>, <<113, 200>>}

\* Math.round of the exact value of 100 * numMatching / size, halves up
ExactlyRounded(numMatching, size) == (200 * numMatching + size) \div (2 * size)

\* Math.round((numMatching / bagOfWords.size) * 100) in double precision:
\* NaN for 0 / 0
Confidence(numMatching, size) ==
  IF size = 0 THEN NaN
  ELSE LET g == Gcd(numMatching, size)
       IN IF <<numMatching \div g, size \div g>> \in RoundedDown
            THEN Num(ExactlyRounded(numMatching, size) - 1)
            ELSE Num(ExactlyRounded(numMatching, size))

\* genSearchFunctions.js 95-111: the rating of one user
ConfidenceRating(list, user, wordInRow) ==
  LET bagOfWords == IdToBagOfWords(list)[user.canvasId]
  IN [user |-> user,
      confidence |->
        Confidence(Cardinality({word \in bagOfWords : HasWord(wordInRow, word)}),
                   Cardinality(bagOfWords))]

\* a.confidence < b.confidence: false when one of them is NaN
ConfidenceLess(a, b) == a # NaN /\ b # NaN /\ a[2] < b[2]

\* the comparator of genSearchFunctions.js 114-122: 0 when a confidence is NaN
CompareRatings(a, b) ==
  IF ConfidenceLess(a.confidence, b.confidence) THEN 1
  ELSE IF ConfidenceLess(b.confidence, a.confidence) THEN 0 - 1
  ELSE 0

(* Array.prototype.sort as node runs it for fewer than 64 elements: the run  *)
(* that starts the array is taken as it is, or reversed when it is strictly  *)
(* descending for the comparator, and every later element is put into it by  *)
(* a binary search. With a comparator that is 0 for NaN the result is what   *)
(* these steps give, which need not be in order.                             *)

\* the first two ratings are in the wrong order, or in the same order
IsDescendingOrEqual(ratings) ==
  Len(ratings) >= 2 /\ CompareRatings(ratings[2], ratings[1]) <= 0

\* the first two ratings are in the wrong order for the comparator
IsDescending(ratings) ==
  Len(ratings) >= 2 /\ CompareRatings(ratings[2], ratings[1]) < 0

\* CountAndMakeRun: the last rating of the run, looking at ratings[k]
RECURSIVE RunLengthFrom(_, _, _)
RunLengthFrom(ratings, k, isDescending) ==
  IF k > Len(ratings) THEN k - 1
  ELSE LET order == CompareRatings(ratings[k], ratings[k - 1])
       IN IF (isDescending /\ order >= 0) \/ (~isDescending /\ order < 0)
            THEN k - 1
            ELSE RunLengthFrom(ratings, k + 1, isDescending)

RunLength(ratings) ==
  IF Len(ratings) < 2 THEN Len(ratings)
  ELSE RunLengthFrom(ratings, 3, IsDescending(ratings))

Reverse(seq) == [k \in 1..Len(seq) |-> seq[Len(seq) + 1 - k]]

\* the run that starts the ratings, reversed when it is descending
MadeRun(ratings) ==
  LET run == SubSeq(ratings, 1, RunLength(ratings))
  IN IF IsDescending(ratings) THEN Reverse(run) ELSE run

\* the binary search of BinaryInsertionSort, left and right counted from 0
RECURSIVE InsertionPoint(_, _, _, _)
InsertionPoint(sorted, x, left, right) ==
  IF left >= right THEN left
  ELSE LET mid == left + ((right - left) \div 2)
       IN IF CompareRatings(x, sorted[mid + 1]) < 0
            THEN InsertionPoint(sorted, x, left, mid)
            ELSE InsertionPoint(sorted, x, mid + 1, right)

\* one step of BinaryInsertionSort: the pivot x is put into the sorted part
InsertRating(sorted, x) ==
  LET pos == InsertionPoint(sorted, x, 0, Len(sorted))
  IN SubSeq(sorted, 1, pos) \o <<x>> \o SubSeq(sorted, pos + 1, Len(sorted))

\* BinaryInsertionSort from ratings[k] on
RECURSIVE InsertRatings(_, _, _)
InsertRatings(ratings, k, sorted) ==
  IF k > Len(ratings) THEN sorted
  ELSE InsertRatings(ratings, k + 1, InsertRating(sorted, ratings[k]))

\* confidenceRatings.sort of genSearchFunctions.js 114-122
SortRatings(ratings) ==
  InsertRatings(ratings, RunLength(ratings) + 1, MadeRun(ratings))

\* genSearchFunctions.js 62-125
GetConfidenceRatings(list, row, excluded) ==
  LET usersToInclude == UsersToInclude(list, excluded, 1)
      confidenceRatings ==
        [k \in 1..Len(usersToInclude) |->
           ConfidenceRating(list, usersToInclude[k], WordInRow(row))]
  IN SortRatings(confidenceRatings)

(***************************************************************************)
(* index.js: users to exclude, potential users and the wrap up             *)
(***************************************************************************)
\* nobody is excluded
ExcludeNobody(matched, type, onlyOnce) == <<>>

\* index.js 411-431: findExcluded(type), called when the type is only once
FindExcluded(matched, type, onlyOnce) ==
  IF onlyOnce THEN Flatten(matched, type, 1) ELSE <<>>

\* index.js 434-457: the potential users of one unmatched row
WithPotentialUsers(unmatchedRow, studentList, teachingTeamList, excluded) ==
  [rawRow |-> unmatchedRow.rawRow,
   dataColumns |-> unmatchedRow.dataColumns,
   errors |-> unmatchedRow.errors,
   rowIndex |-> unmatchedRow.rowIndex,
   potentialStudents |->
     GetConfidenceRatings(studentList, unmatchedRow.rawRow, excluded),
   potentialTeachingTeamMembers |->
     GetConfidenceRatings(teachingTeamList, unmatchedRow.rawRow, excluded)]

\* index.js 464-468
DataHeaders(theHeaders, typeOfCol) == FilterData(theHeaders, typeOfCol, 1)

\* propNameMap[prop] is undefined for the prop null of a data column
NoProperty == "#undefined"

\* index.js 475-483
PropNameMap(prop) ==
  CASE prop = "canvasId" -> "canvas-id"
    [] prop = "fullName" -> "name"
    [] prop = "sortableName" -> "sortable-name"
    [] prop = "sisUserId" -> "university-id"
    [] prop = "loginId" -> "login-id"
    [] prop = "email" -> "email"
    [] OTHER -> NoProperty

\* index.js 471-489
ColTypes(theHeaders, typeOfCol) ==
  [colIndex \in 1..Len(theHeaders) |->
     [type |-> typeOfCol[colIndex].type,
      property |-> PropNameMap(typeOfCol[colIndex].prop)]]

\* index.js 119-125: the teaching team member of an id replaces the student
IdToFullUser(studentList, teachingTeamList) ==
  LET all == studentList \o teachingTeamList
  IN [id \in {all[k].id : k \in 1..Len(all)} |->
        all[CHOOSE k \in 1..Len(all) :
              /\ all[k].id = id
              /\ \A m \in (k + 1)..Len(all) : all[m].id # id]]

\* idToFullUser[user.canvasId], undefined for an id without a full user
FullUser(idToFullUser, user) ==
  IF user.canvasId \in DOMAIN idToFullUser
    THEN idToFullUser[user.canvasId]
    ELSE Undefined

\* index.js 496-503
FullUsers(idToFullUser, list) ==
  [k \in 1..Len(list) |-> FullUser(idToFullUser, list[k])]

\* index.js 514-525
FullRatings(idToFullUser, ratings) ==
  [k \in 1..Len(ratings) |->
     [user |-> FullUser(idToFullUser, ratings[k].user),
      confidence |-> ratings[k].confidence]]

\* index.js 492-506
MatchedRowWithFullUsers(idToFullUser, matchedRow) ==
  [matchedRow EXCEPT !.students = FullUsers(idToFullUser, @),
                     !.teachingTeamMembers = FullUsers(idToFullUser, @)]

\* index.js 509-529
UnmatchedRowWithFullUsers(idToFullUser, unmatchedRow) ==
  [unmatchedRow EXCEPT
     !.potentialStudents = FullRatings(idToFullUser, @),
     !.potentialTeachingTeamMembers = FullRatings(idToFullUser, @)]

(***************************************************************************)
(* Rosters the model draws its inputs from                                 *)
(***************************************************************************)
\* the roster whose k-th record has id k and the fields f[k]
Roster(f) ==
  [k \in DOMAIN f |->
     [id |-> k, name |-> f[k].name, sortable_name |-> f[k].sortable_name,
      sis_user_id |-> f[k].sis_user_id, login_id |-> f[k].login_id,
      email |-> f[k].email]]

RostersOf(fields, max) ==
  UNION {{Roster(f) : f \in [1..n -> fields]} : n \in 0..max}

PreFields ==
  [name : {<<"a">>, <<"B">>},
   sortable_name : {<<"a">>, <<"c">>},
   sis_user_id : {Undef, <<"d">>},
   login_id : {<<>>, <<"d">>},
   email : {<<>>, <<"a">>}]

\* a name that is the name of a member of Object.prototype
ConstructorName == <<"c", "o", "n", "s", "t", "r", "u", "c", "t", "o", "r">>

IndexFields ==
  [name : {<<"a">>, <<"B", " ">>, ConstructorName, ProtoKey},
   sortable_name : {<<"c">>},
   sis_user_id : {<<>>, <<"d">>},
   login_id : {<<"e">>},
   email : {<<>>, <<"a">>}]

(***************************************************************************)
(* preProcessUsers, one pass of its while loop at a time                   *)
(***************************************************************************)
OptUsers == IF target = "students" THEN optStudents ELSE optTeachingTeamMembers

\* users.js 53-62: convert to simple objects
PreProcessUsersMap ==
  /\ pc = "preProcessUsers"
  /\ simpleObjects' = SimpleObjects(OptUsers)
  /\ stillSearchingForDups' = TRUE
  /\ iterations' = 0
  /\ pc' = "dedupLoop"
  /\ UNCHANGED <<target, optVars, numVars, userVars, indexVars, rowVars, outVars>>

\* users.js 68-86: one pass of while (stillSearchingForDups)
DedupIteration ==
  /\ pc = "dedupLoop"
  /\ stillSearchingForDups
  /\ iterations < MaxIter
  /\ LET secondProp == FindSecondPropOfDuplicate(simpleObjects)
     IN IF secondProp # NoProp
          THEN /\ stillSearchingForDups' = TRUE
               /\ simpleObjects' = RemoveProp(simpleObjects, secondProp)
          ELSE /\ stillSearchingForDups' = FALSE
               /\ UNCHANGED simpleObjects
  /\ iterations' = iterations + 1
  /\ UNCHANGED <<pc, target, optVars, numVars, userVars, indexVars, rowVars, outVars>>

\* users.js 88, and index.js 86-87 taking the result
PreProcessUsersReturn ==
  /\ pc = "dedupLoop"
  /\ ~stillSearchingForDups
  /\ IF target = "students"
       THEN /\ students' = simpleObjects
            /\ target' = "teachingTeamMembers"
            /\ pc' = "preProcessUsers"
            /\ UNCHANGED teachingTeamMembers
       ELSE /\ teachingTeamMembers' = simpleObjects
            /\ pc' = "checkUsers"
            /\ UNCHANGED <<students, target>>
  /\ UNCHANGED <<optVars, numVars, preVars, indexVars, rowVars, outVars>>

\* users.js 68-86: the while loop ends, that is, no pass leaves the objects
\* as they were (such a pass is repeated for ever)
RECURSIVE LoopEnds(_)
LoopEnds(simple) ==
  LET secondProp == FindSecondPropOfDuplicate(simple)
  IN IF secondProp = NoProp THEN TRUE
     ELSE IF RemoveProp(simple, secondProp) = simple THEN FALSE
     ELSE LoopEnds(RemoveProp(simple, secondProp))

\* users.js 68-86: the objects the while loop ends with, if it ends
RECURSIVE DedupLoop(_)
DedupLoop(simple) ==
  LET secondProp == FindSecondPropOfDuplicate(simple)
  IN IF secondProp = NoProp THEN simple
     ELSE DedupLoop(RemoveProp(simple, secondProp))

PreProcessUsersEnds(raw) == LoopEnds(SimpleObjects(raw))
PreProcessUsers(raw) == DedupLoop(SimpleObjects(raw))

(***************************************************************************)
(* genPropToCellToUser, one user at a time                                 *)
(***************************************************************************)
\* genPropToCellToUser.js 11-34: one round of users.forEach
IndexInsertUser ==
  /\ pc = "genPropToCellToUser"
  /\ inserted < Len(users)
  /\ propToCellToUser' = InsertUser(propToCellToUser, users[inserted + 1])
  /\ inserted' = inserted + 1
  /\ UNCHANGED <<pc, target, optVars, numVars, preVars, userVars, users, rowVars, outVars>>

(***************************************************************************)
(* Values of the variables a specification does not use                    *)
(***************************************************************************)
NoOpts ==
  /\ headers = <<>>
  /\ rows = <<>>
  /\ studentOnlyOnce = FALSE
  /\ teachingTeamMemberOnlyOnce = FALSE
  /\ optNumStudentsPerRow = Undef
  /\ optNumTeachingTeamMembersPerRow = Undef
  /\ numStudentsPerRow = Undef
  /\ numTeachingTeamMembersPerRow = Undef

NoPre ==
  /\ simpleObjects = <<>>
  /\ stillSearchingForDups = FALSE
  /\ iterations = 0

NoIndex ==
  /\ users = <<>>
  /\ inserted = 0
  /\ propToCellToUser = <<>>

NoRows ==
  /\ pods = <<>>
  /\ colIndexToTypeAndProp = <<>>
  /\ rowMatches = <<>>
  /\ isDisqualified = <<>>
  /\ matchedRows = <<>>
  /\ unmatchedRows = <<>>
  /\ usersToExclude = <<>>
  /\ dataHeaders = <<>>
  /\ colTypes = <<>>

(***************************************************************************)
(* module.exports of index.js after the pre-processing, a phase at a time  *)
(***************************************************************************)
\* opts.x === undefined and opts.x === null: strict equality is defined for
\* every pair of values, of whatever type, so the option is told from
\* undefined and from null by its written form
IsUndefined(opt) == ToString(opt) = ToString(Undef)

IsNull(opt) == ToString(opt) = ToString(Null)

\* opts.x !== undefined && opts.x !== null ? opts.x : AUTO_DETECT
OrAutoDetect(opt) ==
  IF ~IsUndefined(opt) /\ ~IsNull(opt) THEN opt ELSE AUTO_DETECT

\* the condition of the throw of index.js 102-113
NoUsersEither(studentList, teachingTeamList) ==
  Len(studentList) = 0 \/ Len(teachingTeamList) = 0

NoUsersToMatchWith(studentList, teachingTeamList) ==
  Len(studentList) = 0 /\ Len(teachingTeamList) = 0

\* index.js 88-116: defaults of the numbers per row, no users to match with
CheckUsers ==
  /\ pc = "checkUsers"
  /\ numStudentsPerRow' = OrAutoDetect(optNumStudentsPerRow)
  /\ numTeachingTeamMembersPerRow' = OrAutoDetect(optNumTeachingTeamMembersPerRow)
  /\ IF NoUsersToMatchWith(students, teachingTeamMembers)
       THEN pc' = "error"
       ELSE pc' = "detectColumns"
  /\ UNCHANGED <<target, optVars, preVars, userVars, indexVars, rowVars, outVars>>

\* index.js 131-213: type and prop of every column
DetectColumns ==
  /\ pc = "detectColumns"
  /\ pods' = Pods(students, teachingTeamMembers)
  /\ colIndexToTypeAndProp' =
       [colIndex \in 1..Len(headers) |-> TypeAndProp(pods', Cells(colIndex))]
  /\ pc' = "match"
  /\ UNCHANGED <<target, optVars, numVars, preVars, userVars, indexVars,
                 rowMatches, isDisqualified, matchedRows, unmatchedRows, outVars>>

\* index.js 219-267: the matches of every row
PerformMatching ==
  /\ pc = "match"
  /\ rowMatches' =
       [r \in 1..Len(rows) |-> RowMatch(pods, rows[r], colIndexToTypeAndProp)]
  /\ pc' = "autoDetect"
  /\ UNCHANGED <<target, optVars, numVars, preVars, userVars, indexVars, pods,
                 colIndexToTypeAndProp, isDisqualified, matchedRows, unmatchedRows, outVars>>

\* index.js 269-296: auto-detect the number of people per row
AutoDetect ==
  /\ pc = "autoDetect"
  /\ LET numRowsInCount ==
           IF numStudentsPerRow = AUTO_DETECT \/ numTeachingTeamMembersPerRow = AUTO_DETECT
             THEN Cardinality(RowsInCount(rowMatches))
             ELSE 0
     IN /\ numStudentsPerRow' =
             IF numStudentsPerRow = AUTO_DETECT
               THEN RoundedAverage(TotalNumStudents(rowMatches), numRowsInCount)
               ELSE numStudentsPerRow
        /\ numTeachingTeamMembersPerRow' =
             IF numTeachingTeamMembersPerRow = AUTO_DETECT
               THEN RoundedAverage(TotalNumTeachingTeamMembers(rowMatches), numRowsInCount)
               ELSE numTeachingTeamMembersPerRow
  /\ pc' = "findDisqualified"
  /\ UNCHANGED <<target, optVars, preVars, userVars, indexVars, rowVars, outVars>>

\* index.js 300-336: the users that break the only-once rule
Disqualify ==
  /\ pc = "findDisqualified"
  /\ LET afterStudents ==
           IF studentOnlyOnce THEN FindDisqualified(rowMatches, STUDENT, <<>>) ELSE <<>>
     IN isDisqualified' =
          IF teachingTeamMemberOnlyOnce
            THEN FindDisqualified(rowMatches, TEACHING_TEAM_MEMBER, afterStudents)
            ELSE afterStudents
  /\ pc' = "separate"
  /\ UNCHANGED <<target, optVars, numVars, preVars, userVars, indexVars, pods,
                 colIndexToTypeAndProp, rowMatches, matchedRows, unmatchedRows, outVars>>

\* index.js 341-407: matched rows and unmatched rows
SeparateRows ==
  /\ pc = "separate"
  /\ matchedRows' = MatchedRowsFrom(1)
  /\ unmatchedRows' = UnmatchedRowsFrom(1)
  /\ pc' = "findExcluded"
  /\ UNCHANGED <<target, optVars, numVars, preVars, userVars, indexVars, pods,
                 colIndexToTypeAndProp, rowMatches, isDisqualified, outVars>>

\* index.js 409-431: the users to exclude
CollectExcluded ==
  /\ pc = "findExcluded"
  /\ usersToExclude' =
       FindExcluded(matchedRows, STUDENT, studentOnlyOnce)
         \o FindExcluded(matchedRows, TEACHING_TEAM_MEMBER, teachingTeamMemberOnlyOnce)
  /\ pc' = "confidence"
  /\ UNCHANGED <<target, optVars, numVars, preVars, userVars, indexVars, rowVars,
                 dataHeaders, colTypes>>

\* index.js 433-457: potential users of the unmatched rows
AddPotentialUsers ==
  /\ pc = "confidence"
  /\ unmatchedRows' =
       [i \in 1..Len(unmatchedRows) |->
          WithPotentialUsers(unmatchedRows[i], students, teachingTeamMembers,
                             usersToExclude)]
  /\ pc' = "wrapUp"
  /\ UNCHANGED <<target, optVars, numVars, preVars, userVars, indexVars, pods,
                 colIndexToTypeAndProp, rowMatches, isDisqualified, matchedRows,
                 outVars>>

\* index.js 463-543: data headers, column types and full users
WrapUp ==
  /\ pc = "wrapUp"
  /\ dataHeaders' = DataHeaders(headers, colIndexToTypeAndProp)
  /\ colTypes' = ColTypes(headers, colIndexToTypeAndProp)
  /\ LET idToFullUser == IdToFullUser(optStudents, optTeachingTeamMembers)
     IN /\ matchedRows' =
             [i \in 1..Len(matchedRows) |->
                MatchedRowWithFullUsers(idToFullUser, matchedRows[i])]
        /\ unmatchedRows' =
             [i \in 1..Len(unmatchedRows) |->
                UnmatchedRowWithFullUsers(idToFullUser, unmatchedRows[i])]
  /\ pc' = "done"
  /\ UNCHANGED <<target, optVars, numVars, preVars, userVars, indexVars, pods,
                 colIndexToTypeAndProp, rowMatches, isDisqualified, usersToExclude>>

(***************************************************************************)
(* Inputs of a whole run                                                   *)
(***************************************************************************)
Person(id, name, sortable, sis, login, email) ==
  [id |-> id, name |-> name, sortable_name |-> sortable, sis_user_id |-> sis,
   login_id |-> login, email |-> email]

\* user 1 is a student and a teaching team member
UserA == Person(1, <<"A">>, <<"s", "a">>, <<"i", "a">>, <<"l", "a">>, <<"e", "a">>)
UserB == Person(2, <<"b">>, <<"s", "b">>, <<"i", "b">>, <<"l", "b">>, <<"e", "b">>)
UserC == Person(3, <<"c">>, <<"s", "c">>, <<"i", "c">>, <<"l", "c">>, <<"e", "c">>)
\* the name of user 1, no sis id
UserB2 == Person(2, <<"a", " ">>, <<"s", "b">>, Undef, <<"l", "b">>, <<"e", "b">>)
\* no sis id and no email
UserB3 == Person(2, <<"b">>, <<"s", "b">>, Undef, <<"l", "b">>, <<>>)
\* no sis id, no login id and no email
UserB4 == Person(2, <<"b">>, <<"s", "b">>, Undef, <<>>, <<>>)

StudentRosters ==
  {<<>>, <<UserA>>, <<UserA, UserB>>, <<UserA, UserB2>>, <<UserB3>>, <<UserB4>>}

\* user 1 as the teaching team lists it: the record has no email
UserA2 == Person(1, <<"A">>, <<"s", "a">>, <<"i", "a">>, <<"l", "a">>, Undef)

TeachingTeamRosters == {<<>>, <<UserC>>, <<UserC, UserA2>>}

FirstCells == {<<"a">>, <<"A", " ">>, <<"b">>}
SecondCells == {<<"c">>, <<>>}

TwoColumns == <<"h1", "h2">>

\* rows for the rosters <<UserA, UserB>> and <<UserC, UserA>>
RowsOfTwoCells ==
  {<<<<"a">>, <<"c">>>>, <<<<"a">>, <<"a">>>>, <<<<"b">>, <<"a">>>>,
   <<<<"x">>, <<"x">>>>, <<<<"a">>, <<"x">>>>}

\* the tables of at most max of these rows
TablesOf(rowSet, max) == UNION {[1..n -> rowSet] : n \in 0..max}

\* rows that preProcessCSV removes: no cell with content, one cell too few
BlankRow == <<<<>>, <<" ">>>>
ShortRow == <<<<"a">>>>

\* opts.csv.rows: tables of at most max rows, of the rows of the set and of
\* rows that preProcessCSV removes
RawTables(rowSet, max) == TablesOf(rowSet \cup {BlankRow, ShortRow}, max)

\* the rows of line 85 of index.js for these tables
ProcessedTables(rowSet, max) ==
  {PreProcessCSV(TwoColumns, rawRows) : rawRows \in RawTables(rowSet, max)}

Malformed == Str("two")

Init ==
  /\ pc = "preProcessUsers"
  /\ target = "students"
  /\ optStudents \in StudentRosters
  /\ optTeachingTeamMembers \in TeachingTeamRosters
  /\ headers = TwoColumns
  /\ rows \in ProcessedTables({<<c1, c2>> : c1 \in FirstCells, c2 \in SecondCells},
                             MaxRows)
  /\ studentOnlyOnce \in BOOLEAN
  /\ teachingTeamMemberOnlyOnce = FALSE
  /\ optNumStudentsPerRow \in {Undef, Num(1), Malformed}
  /\ optNumTeachingTeamMembersPerRow \in {Undef, ANY_NUMBER}
  /\ numStudentsPerRow = Undef
  /\ numTeachingTeamMembersPerRow = Undef
  /\ students = <<>>
  /\ teachingTeamMembers = <<>>
  /\ NoPre /\ NoIndex /\ NoRows

Next ==
  \/ PreProcessUsersMap
  \/ DedupIteration
  \/ PreProcessUsersReturn
  \/ CheckUsers
  \/ DetectColumns
  \/ PerformMatching
  \/ AutoDetect
  \/ Disqualify
  \/ SeparateRows
  \/ CollectExcluded
  \/ AddPotentialUsers
  \/ WrapUp

Spec == Init /\ [][Next]_vars

\* a run on fixed rosters, from the check of the users on
InitRows ==
  /\ pc = "checkUsers"
  /\ target = "teachingTeamMembers"
  /\ optStudents = <<UserA, UserB>>
  /\ optTeachingTeamMembers = <<UserC, UserA>>
  /\ headers = TwoColumns
  /\ rows \in ProcessedTables(RowsOfTwoCells, MaxTableRows)
  /\ studentOnlyOnce \in BOOLEAN
  /\ teachingTeamMemberOnlyOnce \in BOOLEAN
  /\ optNumStudentsPerRow \in {Undef, ANY_NUMBER, AT_LEAST_ONE, Num(1), Num(2)}
  /\ optNumTeachingTeamMembersPerRow \in {Undef, ANY_NUMBER}
  /\ numStudentsPerRow = Undef
  /\ numTeachingTeamMembersPerRow = Undef
  /\ students = PreProcessUsers(optStudents)
  /\ teachingTeamMembers = PreProcessUsers(optTeachingTeamMembers)
  /\ simpleObjects = teachingTeamMembers
  /\ stillSearchingForDups = FALSE
  /\ iterations = 1
  /\ NoIndex /\ NoRows

NextRows ==
  \/ CheckUsers
  \/ DetectColumns
  \/ PerformMatching
  \/ AutoDetect
  \/ Disqualify
  \/ SeparateRows
  \/ CollectExcluded
  \/ AddPotentialUsers
  \/ WrapUp

SpecRows == InitRows /\ [][NextRows]_vars

\* n rows that are the row
Repeat(row, n) == [k \in 1..n |-> row]

\* a table whose first column holds the name of user 1 with a capital and a
\* space (n1 cells), the name of user 2 (n2), a name of nobody (n3) and
\* nothing (n4), and whose second column holds the name of user 3
ColumnTable(n1, n2, n3, n4) ==
  Repeat(<<<<"A", " ">>, <<"c">>>>, n1) \o Repeat(<<<<"b">>, <<"c">>>>, n2)
    \o Repeat(<<<<"x">>, <<"c">>>>, n3) \o Repeat(<<<<>>, <<"c">>>>, n4)

ColumnTables ==
  UNION {{ColumnTable(n[1], n[2], n[3], n[4]),
          Reverse(ColumnTable(n[1], n[2], n[3], n[4]))} :
           n \in {m \in (0..MaxColRows) \X (0..MaxColRows)
                          \X (0..MaxColRows) \X (0..MaxColRows) :
                    m[1] + m[2] + m[3] + m[4] <= MaxColRows}}

\* a run up to the classification of the columns, on tables of up to
\* MaxColRows rows
InitCols ==
  /\ pc = "checkUsers"
  /\ target = "teachingTeamMembers"
  /\ optStudents \in {<<>>, <<UserA, UserB>>}
  /\ optTeachingTeamMembers \in {<<>>, <<UserC, UserA>>}
  /\ headers = TwoColumns
  /\ rows \in {PreProcessCSV(TwoColumns, rawRows) : rawRows \in ColumnTables}
  /\ studentOnlyOnce = FALSE
  /\ teachingTeamMemberOnlyOnce = FALSE
  /\ \/ optNumStudentsPerRow = Undef /\ optNumTeachingTeamMembersPerRow = Undef
     \/ optNumStudentsPerRow = NaN /\ optNumTeachingTeamMembersPerRow = Null
  /\ numStudentsPerRow = Undef
  /\ numTeachingTeamMembersPerRow = Undef
  /\ students = PreProcessUsers(optStudents)
  /\ teachingTeamMembers = PreProcessUsers(optTeachingTeamMembers)
  /\ simpleObjects = teachingTeamMembers
  /\ stillSearchingForDups = FALSE
  /\ iterations = 1
  /\ NoIndex /\ NoRows

NextCols ==
  \/ CheckUsers
  \/ DetectColumns

SpecCols == InitCols /\ [][NextCols]_vars

\* a user with a name of many words, and two users with bags of six words,
\* one of them the name of a member of Object.prototype
WordLetters == <<"p", "q", "r", "t", "v">>
Word(j) == <<WordLetters[((j - 1) \div 9) + 1], Digits[((j - 1) % 9) + 1]>>

\* the first n words, each of two letters, with a space between two words
WordsUpTo(n) ==
  [i \in 1..(IF n = 0 THEN 0 ELSE 3 * n - 1) |->
     IF i % 3 = 0 THEN " " ELSE Word(((i - 1) \div 3) + 1)[i % 3]]

UserOfWords(k) == Person(1, WordsUpTo(k), <<"s">>, <<"i">>, <<"l">>, <<"e">>)
UserD == Person(2, <<"b">>, <<"t">>, <<"j">>, <<"m">>, <<"f">>)
UserE == Person(3, <<"c">>, ConstructorName, <<"k">>, <<"n">>, <<"g">>)

\* a whole run, from the rosters on, for a row without a match that holds n
\* of the k words of the name of the first student
InitScore ==
  /\ pc = "checkUsers"
  /\ target = "teachingTeamMembers"
  /\ \E k \in 1..MaxWords : \E n \in 0..k :
       /\ optStudents = <<UserOfWords(k), UserD, UserE>>
       /\ \E second \in {<<"x">>, <<"b", " ", "c">>, ConstructorName} :
            rows = PreProcessCSV(TwoColumns,
                                 <<BlankRow, <<<<"z", " ">> \o WordsUpTo(n), second>>>>)
  /\ optTeachingTeamMembers = <<>>
  /\ headers = TwoColumns
  /\ studentOnlyOnce = FALSE
  /\ teachingTeamMemberOnlyOnce = FALSE
  /\ optNumStudentsPerRow = Num(1)
  /\ optNumTeachingTeamMembersPerRow = ANY_NUMBER
  /\ numStudentsPerRow = Undef
  /\ numTeachingTeamMembersPerRow = Undef
  /\ students = PreProcessUsers(optStudents)
  /\ teachingTeamMembers = PreProcessUsers(optTeachingTeamMembers)
  /\ simpleObjects = teachingTeamMembers
  /\ stillSearchingForDups = FALSE
  /\ iterations = 1
  /\ NoIndex /\ NoRows

SpecScore == InitScore /\ [][NextRows]_vars

(***************************************************************************)
(* Specifications                                                          *)
(***************************************************************************)
\* preProcessUsers on a roster of students
InitPre ==
  /\ pc = "preProcessUsers"
  /\ target = "students"
  /\ optStudents \in RostersOf(PreFields, MaxUsers)
  /\ optTeachingTeamMembers = <<>>
  /\ students = <<>>
  /\ teachingTeamMembers = <<>>
  /\ NoOpts /\ NoPre /\ NoIndex /\ NoRows

NextPre == PreProcessUsersMap \/ DedupIteration \/ PreProcessUsersReturn

SpecPre == InitPre /\ [][NextPre]_vars

\* genPropToCellToUser on a roster preProcessUsers returned
InitIndex ==
  /\ pc = "genPropToCellToUser"
  /\ target = "students"
  /\ optStudents \in RostersOf(IndexFields, MaxIndexUsers)
  /\ PreProcessUsersEnds(optStudents)
  /\ optTeachingTeamMembers = <<>>
  /\ students = PreProcessUsers(optStudents)
  /\ teachingTeamMembers = <<>>
  /\ users = students
  /\ inserted = 0
  /\ propToCellToUser = <<>>
  /\ NoOpts /\ NoPre /\ NoRows

NextIndex == IndexInsertUser

SpecIndex == InitIndex /\ [][NextIndex]_vars

(***************************************************************************)
(* Properties                                                              *)
(***************************************************************************)
\* the users already inserted whose value of prop gives the key cell
Owners(prop, cell) ==
  {k \in 1..inserted : CellOfProp(users[k], prop) = cell}

\* C1: an entry of the field index is a concrete user only if exactly one
\* inserted user has that value for that property; with two or more owners
\* the entry is the ambiguous marker, whatever is inserted later.
C1_ConcreteOnlyIfSoleOwner ==
  pc = "genPropToCellToUser" =>
    \A prop \in DOMAIN propToCellToUser :
      \A cell \in DOMAIN propToCellToUser[prop].own :
        /\ Truthy(propToCellToUser[prop].own[cell]) =>
             Cardinality(Owners(prop, cell)) = 1
        /\ Cardinality(Owners(prop, cell)) >= 2 =>
             propToCellToUser[prop].own[cell] = Null

\* the properties preProcessUsers has set to undefined
Elided(simple) ==
  {i \in 2..Len(Props) : \E k \in 1..Len(simple) : simple[k][Props[i]] = Undef}

\* C10: every pass of the duplicate-removal loop either elides a property
\* that was not yet elided or finds no duplicate and stops the loop, so the
\* loop ends.
C10_EveryPassElidesOrStops ==
  [][(pc = "dedupLoop" /\ iterations' = iterations + 1) =>
       \/ ~stillSearchingForDups'
       \/ /\ Elided(simpleObjects) \subseteq Elided(simpleObjects')
          /\ Elided(simpleObjects) # Elided(simpleObjects')]_vars

\* the run is past the matching of the rows
Matched ==
  pc \in {"autoDetect", "findDisqualified", "separate", "findExcluded",
          "confidence", "wrapUp", "done"}

RosterOf(type) == IF type = STUDENT THEN students ELSE teachingTeamMembers

\* the users of the roster whose value of prop is the cell, trimmed and in
\* lower case
OwnersOfCell(type, prop, cell) ==
  {k \in 1..Len(RosterOf(type)) :
     CellOfProp(RosterOf(type)[k], prop) = ToLowerCase(Trim(cell))}

IsIn(seq, x) == \E k \in 1..Len(seq) : seq[k] = x

\* C2: in a column classified as (roster, field), a cell that, trimmed and in
\* lower case, is the value of the field of exactly one user of the roster
\* gives that user as a match of the row.
C2_ExactMatchAfterTrimAndLowerCase ==
  Matched =>
    \A r \in 1..Len(rows) : \A c \in 1..Len(headers) :
      LET type == colIndexToTypeAndProp[c].type
          prop == colIndexToTypeAndProp[c].prop
      IN type # DATA =>
           \A k \in OwnersOfCell(type, prop, rows[r][c]) :
             OwnersOfCell(type, prop, rows[r][c]) = {k} =>
               IsIn(UsersOfType(rowMatches[r], type), RosterOf(type)[k])

\* C8: the run ends in the error, with no column types and no rows, exactly
\* when both rosters are empty.
C8_NoUsersIsAnError ==
  /\ pc = "error" =>
       /\ Len(optStudents) = 0 /\ Len(optTeachingTeamMembers) = 0
       /\ colIndexToTypeAndProp = <<>>
       /\ rowMatches = <<>> /\ matchedRows = <<>> /\ unmatchedRows = <<>>
  /\ pc \in {"detectColumns", "match", "autoDetect", "findDisqualified",
             "separate", "done"} =>
       Len(optStudents) > 0 \/ Len(optTeachingTeamMembers) > 0

C8_Witness ==
  pc = "error" /\ Len(optStudents) = 0 /\ Len(optTeachingTeamMembers) = 0
    /\ Len(rows) > 0

\* C9: with a malformed number per row the run aborts: it never ends with
\* matched and unmatched rows.
C9_MalformedNumberAborts ==
  (optNumStudentsPerRow = Malformed \/ optNumTeachingTeamMembersPerRow = Malformed)
    => pc # "done"

(***************************************************************************)
(* Properties of the matched and unmatched rows                            *)
(***************************************************************************)
Types == {STUDENT, TEACHING_TEAM_MEMBER}

OnlyOnce(type) == IF type = STUDENT THEN studentOnlyOnce ELSE teachingTeamMemberOnlyOnce

OptNumPerRow(type) ==
  IF type = STUDENT THEN optNumStudentsPerRow ELSE optNumTeachingTeamMembersPerRow

NumPerRow(type) ==
  IF type = STUDENT THEN numStudentsPerRow ELSE numTeachingTeamMembersPerRow

\* row i (from 1) is among the matched / the unmatched rows
InMatchedRows(i) == \E k \in 1..Len(matchedRows) : matchedRows[k].rowIndex = i - 1
InUnmatchedRows(i) == \E k \in 1..Len(unmatchedRows) : unmatchedRows[k].rowIndex = i - 1

ErrorsOfRow(i) ==
  LET k == CHOOSE k \in 1..Len(unmatchedRows) : unmatchedRows[k].rowIndex = i - 1
  IN unmatchedRows[k].errors

\* the rows whose matches of the type hold the user
RowsWith(type, user) ==
  {i \in 1..Len(rowMatches) : IsIn(UsersOfType(rowMatches[i], type), user)}

NumOfType(i, type) == Len(UsersOfType(rowMatches[i], type))

\* the number of users satisfies the expected number per row
Satisfies(expected, count) ==
  \/ expected = ANY_NUMBER
  \/ expected = AT_LEAST_ONE /\ count > 0
  \/ expected = Num(count)

\* C3: with the only-once rule on for a roster, every row with a user of the
\* roster that is matched in two or more rows is unmatched, not matched, and
\* has an error that names the user and the type of the roster.
C3_OnlyOnceIsRetroactive ==
  pc = "done" =>
    \A type \in Types : \A k \in 1..Len(RosterOf(type)) :
      LET user == RosterOf(type)[k]
      IN (OnlyOnce(type) /\ Cardinality(RowsWith(type, user)) >= 2) =>
           \A i \in RowsWith(type, user) :
             /\ InUnmatchedRows(i)
             /\ ~InMatchedRows(i)
             /\ IsIn(ErrorsOfRow(i), DisqualifiedMessage(type, user))

\* C3 but for the type named in the error: every such row is unmatched
\* with an error that names the user
C3_RowsOfRepeatedUserAreUnmatched ==
  pc = "done" =>
    \A type \in Types : \A k \in 1..Len(RosterOf(type)) :
      LET user == RosterOf(type)[k]
      IN (OnlyOnce(type) /\ Cardinality(RowsWith(type, user)) >= 2) =>
           \A i \in RowsWith(type, user) :
             /\ InUnmatchedRows(i)
             /\ ~InMatchedRows(i)
             /\ \E t \in Types : IsIn(ErrorsOfRow(i), DisqualifiedMessage(t, user))

\* C4: a row is matched exactly when none of its users is disqualified and
\* its numbers of students and of teaching team members satisfy the expected
\* numbers per row; every other row is unmatched.
C4_MatchedIffQualifiedAndCounted ==
  pc = "done" =>
    \A i \in 1..Len(rows) :
      LET qualified ==
            \A type \in Types : \A k \in 1..NumOfType(i, type) :
              UsersOfType(rowMatches[i], type)[k].canvasId \notin DOMAIN isDisqualified
          counted ==
            \A type \in Types : Satisfies(NumPerRow(type), NumOfType(i, type))
      IN /\ InMatchedRows(i) <=> (qualified /\ counted)
         /\ InUnmatchedRows(i) <=> ~(qualified /\ counted)

C4_Witness ==
  /\ pc = "done"
  /\ \E i, j \in 1..Len(rows) :
       /\ InMatchedRows(i) /\ NumOfType(i, STUDENT) = 1
       /\ InUnmatchedRows(j) /\ NumOfType(j, STUDENT) = 1
       /\ \E k \in 1..Len(ErrorsOfRow(j)) : ErrorsOfRow(j)[k].kind = "number per row"
                                             /\ ErrorsOfRow(j)[k].type = TEACHING_TEAM_MEMBER

\* an error about the number of users of the type
IsNumError(e, type) ==
  e.kind \in {"at least one", "number per row"} /\ e.type = type

\* C5: when the number per row is given, "any" accepts every number of
\* users, "at-least-one" accepts exactly the numbers above 0 and a number n
\* accepts exactly n: a row has an error about the number of users of a type
\* exactly when its number is not accepted.
C5_NumPerRowSpecifiers ==
  pc = "done" =>
    \A type \in Types : \A i \in 1..Len(rows) :
      LET expected == OptNumPerRow(type)
          count == NumOfType(i, type)
          accepted == CASE expected = ANY_NUMBER -> TRUE
                        [] expected = AT_LEAST_ONE -> count > 0
                        [] OTHER -> expected = Num(count)
          hasError == /\ InUnmatchedRows(i)
                      /\ \E k \in 1..Len(ErrorsOfRow(i)) : IsNumError(ErrorsOfRow(i)[k], type)
      IN expected # Undef => (hasError <=> ~accepted)

C5_Witness ==
  /\ pc = "done"
  /\ optNumStudentsPerRow = AT_LEAST_ONE
  /\ optNumTeachingTeamMembersPerRow = ANY_NUMBER
  /\ \E i, j \in 1..Len(rows) :
       /\ NumOfType(i, STUDENT) = 0 /\ InUnmatchedRows(i)
       /\ NumOfType(j, STUDENT) = 2 /\ InMatchedRows(j)

\* the run is past the auto-detection of the numbers per row
AfterAutoDetect ==
  {"findDisqualified", "separate", "findExcluded", "confidence", "wrapUp", "done"}

\* the rows with a match in either roster, and the users of a type in them
CountedRows ==
  {i \in 1..Len(rowMatches) : \E type \in Types : NumOfType(i, type) > 0}

CountedUsers(type) ==
  {p \in CountedRows \X (1..Len(headers)) : p[2] <= NumOfType(p[1], type)}

\* C6: an auto-detected number per row is the mean, rounded, of the numbers
\* of users of the type over the rows with a match in either roster (1 for
\* the numbers 1, 1, 1, 2 and a row without any match); it is the number
\* returned and the one the rows are held to.
C6_AutoDetectIsRoundedMean ==
  /\ RoundedAverage(1 + 1 + 1 + 2, 4) = Num(1)
  /\ (pc \in AfterAutoDetect /\ CountedRows # {}) =>
       \A type \in Types :
         OptNumPerRow(type) = Undef =>
           \E n \in 0..Len(headers) :
             /\ NumPerRow(type) = Num(n)
             /\ 2 * Cardinality(CountedUsers(type)) - Cardinality(CountedRows)
                  < 2 * n * Cardinality(CountedRows)
             /\ 2 * n * Cardinality(CountedRows)
                  <= 2 * Cardinality(CountedUsers(type)) + Cardinality(CountedRows)
             /\ pc = "done" =>
                  \A i \in 1..Len(rows) :
                    NumOfType(i, type) # n => InUnmatchedRows(i)

C6_Witness ==
  /\ pc = "done"
  /\ optNumStudentsPerRow = Undef
  /\ numStudentsPerRow = Num(2)
  /\ Cardinality(CountedRows) = 2
  /\ Len(rows) = 3
  /\ \E i \in 1..Len(rows) : NumOfType(i, STUDENT) = 1 /\ InUnmatchedRows(i)
  /\ \E i \in 1..Len(rows) : NumOfType(i, STUDENT) = 2 /\ InMatchedRows(i)

\* C7: auto-detection on a table without any match ends the run with every
\* row unmatched: the number it gives is one no row can have.
C7_AutoDetectWithoutMatches ==
  (pc \in AfterAutoDetect /\ CountedRows = {}) =>
    /\ \A type \in Types :
         OptNumPerRow(type) = Undef =>
           \A n \in 0..Len(headers) :
             GenNumPerRowErrorMessage(type, NumPerRow(type), n) # Null
    /\ (pc = "done" /\ \E type \in Types : OptNumPerRow(type) = Undef) =>
         /\ matchedRows = <<>>
         /\ Len(unmatchedRows) = Len(rows)
         /\ \A i \in 1..Len(rows) : InUnmatchedRows(i)

C7_Witness ==
  /\ pc = "done"
  /\ CountedRows = {}
  /\ Len(rows) >= 2
  /\ optNumStudentsPerRow = Undef
  /\ optNumTeachingTeamMembersPerRow = ANY_NUMBER
  /\ Len(unmatchedRows) = Len(rows)

(***************************************************************************)
(* Properties of the simple objects                                        *)
(***************************************************************************)
\* preProcessUsers has returned the simple objects of opts.students
StudentsReturned == target = "teachingTeamMembers"

\* the pairs of descriptive properties, the first before the second, that
\* hold the same value in every record of a roster that is not empty
SameInEveryRecord(raw) ==
  {p \in (2..Len(Props)) \X (2..Len(Props)) :
     /\ p[1] < p[2]
     /\ Len(raw) > 0
     /\ \A k \in 1..Len(raw) :
          SimpleObject(raw[k])[Props[p[1]]] = SimpleObject(raw[k])[Props[p[2]]]}

\* C11: when preProcessUsers returns, the list has the length and the order
\* of the roster, no canvasId is elided, every other property is the value
\* of the record or elided, and of two properties that hold the same value in
\* every record the second is elided in every object and the first is kept
\* in every object.
C11_SecondOfDuplicateIsElided ==
  StudentsReturned =>
    /\ Len(students) = Len(optStudents)
    /\ \A k \in 1..Len(students) :
         /\ students[k].canvasId = optStudents[k].id
         /\ \A i \in 2..Len(Props) :
              students[k][Props[i]] \in {SimpleObject(optStudents[k])[Props[i]], Undef}
    /\ \A p \in SameInEveryRecord(optStudents) :
         \A k \in 1..Len(students) :
           /\ students[k][Props[p[2]]] = Undef
           /\ students[k][Props[p[1]]] # Undef

C11_Witness ==
  /\ StudentsReturned
  /\ Len(students) = 2
  /\ optStudents[1].email # optStudents[2].email
  /\ <<2, 3>> \in SameInEveryRecord(optStudents)
  /\ \A k \in 1..Len(students) :
       students[k].sortableName = Undef /\ students[k].fullName # Undef

(***************************************************************************)
(* Properties of the column types                                          *)
(***************************************************************************)
\* the columns have just been given their type and prop, which the later
\* phases leave as they are
Classified == pc = "match"

\* the number of cells of the column that are, trimmed and in lower case, a
\* value of the prop held by a concrete user of the roster
Score(type, prop, c) == NumMatching(SearchIndex(pods, type), prop, Cells(c))

\* the (roster, prop) pairs of the rosters that have a member
Pairs == {p \in Types \X (1..Len(Props)) : Len(RosterOf(p[1])) > 0}

\* students before teaching team members, props in the order of Props
PairRank(p) == (IF p[1] = STUDENT THEN 0 ELSE Len(Props)) + p[2]

ScoreOfPair(p, c) == Score(p[1], Props[p[2]], c)

\* C12: a column in which at most 5% of the cells are a concrete value of
\* any (roster, prop) pair, in particular none, has the type data.
C12_ColumnWithoutMatchesIsData ==
  Classified =>
    \A c \in 1..Len(headers) :
      (\A type \in Types : \A i \in 1..Len(Props) :
         20 * Score(type, Props[i], c) <= Len(rows))
        => colIndexToTypeAndProp[c].type = DATA

\* C13: the (roster, prop) of an identity column has the most matching cells
\* of all pairs and more than every pair before it in the order students
\* before teaching team members, props as declared; its roster has a member;
\* in a data column no pair reaches the minimum.
C13_WinnerIsFirstWithMostMatches ==
  Classified =>
    \A c \in 1..Len(headers) :
      LET t == colIndexToTypeAndProp[c]
      IN IF t.type = DATA
           THEN \A p \in Pairs : ScoreOfPair(p, c) < MinToMatch(Cells(c))
           ELSE /\ Len(RosterOf(t.type)) > 0
                /\ \A p \in Pairs :
                     LET w == CHOOSE q \in Pairs : q[1] = t.type /\ Props[q[2]] = t.prop
                     IN /\ ScoreOfPair(p, c) <= ScoreOfPair(w, c)
                        /\ PairRank(p) < PairRank(w) =>
                             ScoreOfPair(p, c) < ScoreOfPair(w, c)

\* two pairs match the same number of cells of the first column and the
\* first of them is taken; a pair of the second roster wins the second
\* column; the table has rows enough for the minimum to be above 0
C13_Witness ==
  /\ Classified
  /\ Len(rows) >= 5
  /\ colIndexToTypeAndProp[1] = [type |-> STUDENT, prop |-> "fullName"]
  /\ Score(STUDENT, "fullName", 1) > 0
  /\ Score(TEACHING_TEAM_MEMBER, "fullName", 1) = Score(STUDENT, "fullName", 1)
  /\ colIndexToTypeAndProp[2] = [type |-> TEACHING_TEAM_MEMBER, prop |-> "fullName"]
  /\ Score(STUDENT, "fullName", 2) < Score(TEACHING_TEAM_MEMBER, "fullName", 2)

\* the number of non-empty cells of the column that are a concrete value of
\* the prop in the roster
NonemptyMatching(type, prop, c) ==
  Cardinality({r \in 1..Len(rows) :
                 /\ Len(Trim(rows[r][c])) > 0
                 /\ Truthy(Lookup(SearchIndex(pods, type), prop,
                                  ToLowerCase(Trim(rows[r][c]))))})

\* the cells of the column match the prop of the roster in 90% of the rows
\* with a non-empty cell
NinetyPercent(type, prop, c) ==
  /\ NumNonempty(Cells(c)) > 0
  /\ 10 * NonemptyMatching(type, prop, c) >= 9 * NumNonempty(Cells(c))

\* C14, as stated: a column whose cells match prop F of roster R in 90% of
\* the rows with a non-empty cell has the type R and the prop F.
C14_NinetyPercentIsThatRosterAndField ==
  Classified =>
    \A c \in 1..Len(headers) : \A p \in Pairs :
      NinetyPercent(p[1], Props[p[2]], c) =>
        colIndexToTypeAndProp[c] = [type |-> p[1], prop |-> Props[p[2]]]

\* C14, amended: such a column is an identity column, and it has the type R
\* and the prop F unless another pair has more matching cells, or as many
\* and comes before (R, F).
C14_NinetyPercentIsAnIdentityColumn ==
  Classified =>
    \A c \in 1..Len(headers) : \A p \in Pairs :
      NinetyPercent(p[1], Props[p[2]], c) =>
        /\ colIndexToTypeAndProp[c].type # DATA
        /\ (\A q \in Pairs :
              /\ ScoreOfPair(q, c) <= ScoreOfPair(p, c)
              /\ PairRank(q) < PairRank(p) => ScoreOfPair(q, c) < ScoreOfPair(p, c))
             => colIndexToTypeAndProp[c] = [type |-> p[1], prop |-> Props[p[2]]]

\* nine of the ten cells of the first column, none of them empty, match the
\* names of the students, and as many match no other pair
C14_Witness ==
  /\ Classified
  /\ Len(rows) = 10
  /\ NumNonempty(Cells(1)) = 10
  /\ NonemptyMatching(STUDENT, "fullName", 1) = 9
  /\ Score(TEACHING_TEAM_MEMBER, "fullName", 1) < 9
  /\ colIndexToTypeAndProp[1] = [type |-> STUDENT, prop |-> "fullName"]

(***************************************************************************)
(* Properties of the result                                                *)
(***************************************************************************)
OptRosterOf(type) == IF type = STUDENT THEN optStudents ELSE optTeachingTeamMembers

\* the potential users of the type of an unmatched row
PotentialUsers(unmatchedRow, type) ==
  IF type = STUDENT THEN unmatchedRow.potentialStudents
  ELSE unmatchedRow.potentialTeachingTeamMembers

\* the place in the roster of the user with the id
PlaceInRoster(type, id) ==
  CHOOSE k \in 1..Len(RosterOf(type)) : RosterOf(type)[k].canvasId = id

\* C15: in the result every confidence of a potential user is a whole number
\* from 0 to 100, never NaN, and it is 100 times the number of words of the
\* user's bag that are in the row, divided by the size of the bag, rounded,
\* also for a user with an empty or elided property.
C15_ConfidenceIsRoundedShareOfBag ==
  pc = "done" =>
    \A u \in 1..Len(unmatchedRows) : \A type \in Types :
      \A j \in 1..Len(PotentialUsers(unmatchedRows[u], type)) :
        LET rating == PotentialUsers(unmatchedRows[u], type)[j]
            user == RosterOf(type)[PlaceInRoster(type, rating.user.id)]
            size == Cardinality(BagOfWords(user))
            common == Cardinality(BagOfWords(user)
                                    \cap WordInRow(unmatchedRows[u].rawRow))
        IN /\ rating.confidence # NaN
           /\ rating.confidence[1] = "number"
           /\ rating.confidence[2] \in 0..100
           /\ size > 0
           /\ 2 * size * rating.confidence[2] > 200 * common - size
           /\ 2 * size * rating.confidence[2] <= 200 * common + size

\* the canvasIds of the users to exclude
ExcludedIds == {usersToExclude[k].canvasId : k \in 1..Len(usersToExclude)}

\* C16: the potential users of a type of an unmatched row are the users of
\* the roster that are not excluded, each exactly once, by confidence from
\* high to low, users of equal confidence in the order of the roster.
C16_AllIncludedUsersSortedStably ==
  pc = "done" =>
    \A u \in 1..Len(unmatchedRows) : \A type \in Types :
      LET list == PotentialUsers(unmatchedRows[u], type)
          included == {k \in 1..Len(RosterOf(type)) :
                         RosterOf(type)[k].canvasId \notin ExcludedIds}
      IN /\ Len(list) = Cardinality(included)
         /\ \A k \in included :
              Cardinality({j \in 1..Len(list) :
                             list[j].user.id = RosterOf(type)[k].canvasId}) = 1
         /\ \A i, j \in 1..Len(list) :
              i < j =>
                /\ list[i].confidence[2] >= list[j].confidence[2]
                /\ list[i].confidence[2] = list[j].confidence[2] =>
                     PlaceInRoster(type, list[i].user.id)
                       < PlaceInRoster(type, list[j].user.id)

C16_Witness ==
  /\ pc = "done"
  /\ \E u \in 1..Len(unmatchedRows) :
       LET list == unmatchedRows[u].potentialTeachingTeamMembers
           other == unmatchedRows[u].potentialStudents
       IN /\ Len(list) = 2
          /\ list[1].user.id = 1 /\ list[2].user.id = 3
          /\ list[1].confidence[2] > list[2].confidence[2]
          /\ Len(other) = 2
          /\ other[1].confidence = other[2].confidence
          /\ other[1].user.id = 1 /\ other[2].user.id = 2

\* the user with the id is a user of the type of a matched row
MatchedInSomeRow(type, id) ==
  \E m \in 1..Len(matchedRows) :
    \E k \in 1..Len(UsersOfType(matchedRows[m], type)) :
      UsersOfType(matchedRows[m], type)[k].id = id

\* C17, as stated: no potential user of a type of an unmatched row is a user
\* of that type of a matched row.
C17_MatchedUsersAreNeverPotential ==
  pc = "done" =>
    \A u \in 1..Len(unmatchedRows) : \A type \in Types :
      \A j \in 1..Len(PotentialUsers(unmatchedRows[u], type)) :
        ~MatchedInSomeRow(type, PotentialUsers(unmatchedRows[u], type)[j].user.id)

\* C17, amended: when the users of a type may show up only once, no potential
\* user of that type of an unmatched row is a user of that type of a matched
\* row; when the users of no type are held to once, nobody is excluded and
\* every user of the roster is a potential user of every unmatched row.
C17_MatchedUsersAreNotPotentialWhenOnlyOnce ==
  pc = "done" =>
    \A u \in 1..Len(unmatchedRows) : \A type \in Types :
      /\ OnlyOnce(type) =>
           \A j \in 1..Len(PotentialUsers(unmatchedRows[u], type)) :
             ~MatchedInSomeRow(type, PotentialUsers(unmatchedRows[u], type)[j].user.id)
      /\ (~studentOnlyOnce /\ ~teachingTeamMemberOnlyOnce) =>
           \A k \in 1..Len(RosterOf(type)) :
             \E j \in 1..Len(PotentialUsers(unmatchedRows[u], type)) :
               PotentialUsers(unmatchedRows[u], type)[j].user.id
                 = RosterOf(type)[k].canvasId

C17_Witness ==
  /\ pc = "done"
  /\ studentOnlyOnce
  /\ MatchedInSomeRow(STUDENT, 1)
  /\ \E u \in 1..Len(unmatchedRows) :
       /\ Len(unmatchedRows[u].potentialStudents) = 1
       /\ unmatchedRows[u].potentialStudents[1].user.id = 2

\* C18: every user of a matched row of the result is the record, as the
\* caller gave it, of the roster the user was matched from that has the id
\* of the matched user.
C18_FullUsersAreTheRecordsOfTheirRoster ==
  pc = "done" =>
    \A m \in 1..Len(matchedRows) : \A type \in Types :
      LET matches == UsersOfType(rowMatches[matchedRows[m].rowIndex + 1], type)
          full == UsersOfType(matchedRows[m], type)
      IN /\ Len(full) = Len(matches)
         /\ \A k \in 1..Len(full) :
              \E r \in 1..Len(OptRosterOf(type)) :
                /\ OptRosterOf(type)[r].id = matches[k].canvasId
                /\ full[k] = OptRosterOf(type)[r]

\* the number of errors of the list that satisfy the test
NumErrors(errors, Test(_)) ==
  Cardinality({k \in 1..Len(errors) : Test(errors[k])})

\* C19: the errors of an unmatched row are one error for each of its users
\* that is disqualified, one if the number of students is not the expected
\* one and one if the number of teaching team members is not, and no other;
\* the run ends with every row among the matched or the unmatched rows.
C19_EveryReasonIsRecorded ==
  pc = "done" =>
    /\ Len(matchedRows) + Len(unmatchedRows) = Len(rows)
    /\ \A i \in 1..Len(rows) : InMatchedRows(i) \/ InUnmatchedRows(i)
    /\ \A i \in 1..Len(rows) :
         InUnmatchedRows(i) =>
           LET errors == ErrorsOfRow(i)
               IsOnlyOnce(e) == e.kind = "only once"
               IsStudentNum(e) == IsNumError(e, STUDENT)
               IsTeachingTeamNum(e) == IsNumError(e, TEACHING_TEAM_MEMBER)
               disqualified ==
                 {p \in Types \X (1..Len(headers)) :
                    /\ p[2] <= NumOfType(i, p[1])
                    /\ UsersOfType(rowMatches[i], p[1])[p[2]].canvasId
                         \in DOMAIN isDisqualified}
           IN /\ NumErrors(errors, IsOnlyOnce) = Cardinality(disqualified)
              /\ NumErrors(errors, IsStudentNum) =
                   (IF Satisfies(numStudentsPerRow, NumOfType(i, STUDENT))
                      THEN 0 ELSE 1)
              /\ NumErrors(errors, IsTeachingTeamNum) =
                   (IF Satisfies(numTeachingTeamMembersPerRow,
                                 NumOfType(i, TEACHING_TEAM_MEMBER))
                      THEN 0 ELSE 1)
              /\ Len(errors) = NumErrors(errors, IsOnlyOnce)
                                 + NumErrors(errors, IsStudentNum)
                                 + NumErrors(errors, IsTeachingTeamNum)

C19_Witness ==
  /\ pc = "done"
  /\ Len(matchedRows) + Len(unmatchedRows) = 3
  /\ \E i \in 1..Len(rows) :
       /\ InUnmatchedRows(i)
       /\ Len(ErrorsOfRow(i)) = 3
       /\ ErrorsOfRow(i)[1].kind = "only once"
       /\ IsNumError(ErrorsOfRow(i)[2], STUDENT)
       /\ IsNumError(ErrorsOfRow(i)[3], TEACHING_TEAM_MEMBER)

\* the columns of type data, and the k-th of them
DataColumnIndexes == {c \in 1..Len(headers) : colIndexToTypeAndProp[c].type = DATA}

DataColumnIndex(k) ==
  CHOOSE c \in DataColumnIndexes :
    Cardinality({d \in DataColumnIndexes : d < c}) = k - 1

\* the cells of the row are rawRow, the cells of its data columns dataColumns
HasCellsOfRow(resultRow) ==
  /\ resultRow.rawRow = rows[resultRow.rowIndex + 1]
  /\ Len(resultRow.dataColumns) = Cardinality(DataColumnIndexes)
  /\ \A k \in 1..Len(resultRow.dataColumns) :
       resultRow.dataColumns[k] = rows[resultRow.rowIndex + 1][DataColumnIndex(k)]

\* C20: dataHeaders are the headers of the columns of type data, in the
\* order of the columns; dataColumns of every matched and unmatched row are
\* the cells of the row in these columns, in the same order; rawRow is the
\* row.
C20_DataHeadersAndDataColumns ==
  pc = "done" =>
    /\ Len(dataHeaders) = Cardinality(DataColumnIndexes)
    /\ \A k \in 1..Len(dataHeaders) : dataHeaders[k] = headers[DataColumnIndex(k)]
    /\ \A m \in 1..Len(matchedRows) : HasCellsOfRow(matchedRows[m])
    /\ \A u \in 1..Len(unmatchedRows) : HasCellsOfRow(unmatchedRows[u])

C20_Witness ==
  /\ pc = "done"
  /\ DataColumnIndexes = {2}
  /\ dataHeaders = <<"h2">>
  /\ Len(matchedRows) = 2
  /\ Len(unmatchedRows) = 1
  /\ unmatchedRows[1].rawRow # matchedRows[1].rawRow
  /\ unmatchedRows[1].dataColumns = <<unmatchedRows[1].rawRow[2]>>

(***************************************************************************)
(* C21: the returned colTypes                                              *)
(***************************************************************************)
\* README 53-60: the documented values of property for an identity column
PropertyNames ==
  {"canvas-id", "name", "sortable-name", "university-id", "login-id", "email"}

\* C21: colTypes has one entry per header; the property of a column
\* classified as data is null, and the property of an identity column is
\* one of the six documented names.
C21_PropertyIsNullOrAName ==
  pc = "done" =>
    /\ Len(colTypes) = Len(headers)
    /\ \A c \in 1..Len(colTypes) :
         /\ colTypes[c].type = colIndexToTypeAndProp[c].type
         /\ IF colTypes[c].type = DATA
              THEN colTypes[c].property = NoProp
              ELSE colTypes[c].property \in PropertyNames

(***************************************************************************)
(* C22: blank and elided fields in the field index                         *)
(***************************************************************************)
\* the users of the roster whose property is blank or was set to undefined
\* by preProcessUsers
BlankOrElided(type, prop) ==
  {k \in 1..Len(RosterOf(type)) :
     /\ prop # "canvasId"
     /\ \/ RosterOf(type)[k][prop] = Undef
        \/ Len(Trim(RosterOf(type)[k][prop])) = 0}

\* the keys of propToCellToUser[prop] that come from such a property
KeysOfBlankOrElided(pod, prop) ==
  {cell \in DOMAIN pod.propToCellToUser[prop].own :
     \E k \in BlankOrElided(pod.type, prop) :
       CellOfProp(RosterOf(pod.type)[k], prop) = cell}

\* C22: the field index has no entry for a field that is blank or was
\* elided, so no empty cell is counted as a match of a column or gives a
\* user through such a field.
C22_NoEntryForBlankOrElidedField ==
  Classified =>
    /\ \A p \in 1..Len(pods) : \A prop \in DOMAIN pods[p].propToCellToUser :
         KeysOfBlankOrElided(pods[p], prop) = {}
    /\ \A c \in 1..Len(headers) : \A p \in 1..Len(pods) :
         \A prop \in DOMAIN pods[p].propToCellToUser :
           NumMatching(pods[p].propToCellToUser, prop, Cells(c))
             <= NumNonempty(Cells(c))
    /\ \A r \in 1..Len(rows) : \A c \in 1..Len(headers) :
         LET type == colIndexToTypeAndProp[c].type
             prop == colIndexToTypeAndProp[c].prop
         IN (type # DATA /\ Len(Trim(rows[r][c])) = 0) =>
              GetMatch(SearchIndex(pods, type), prop, rows[r][c]) = Null

(***************************************************************************)
(* C23: the matches of a row are sets                                      *)
(***************************************************************************)
\* the canvasIds of the users of the type matched in row i
IdsOfType(i, type) ==
  {UsersOfType(rowMatches[i], type)[k].canvasId : k \in 1..NumOfType(i, type)}

\* row i has an error about its number of users of the type
HasNumError(i, type) ==
  /\ InUnmatchedRows(i)
  /\ \E k \in 1..Len(ErrorsOfRow(i)) : IsNumError(ErrorsOfRow(i)[k], type)

\* the entry is one of the users of the roster of the type
IsUserOfRoster(type, entry) ==
  \E k \in 1..Len(RosterOf(type)) : RosterOf(type)[k] = entry

\* C23: the matches of a row are users of the roster, each at most once also
\* when several columns of the row give that user, every user a column gives
\* is among them, and the number held against the expected number per row is
\* the number of distinct users.
C23_RowMatchesAreSets ==
  pc = "done" =>
    \A i \in 1..Len(rows) : \A type \in Types :
      /\ \A k \in 1..NumOfType(i, type) :
           IsUserOfRoster(type, UsersOfType(rowMatches[i], type)[k])
      /\ \A k, m \in 1..NumOfType(i, type) :
           UsersOfType(rowMatches[i], type)[k].canvasId
             = UsersOfType(rowMatches[i], type)[m].canvasId => k = m
      /\ \A c \in 1..Len(headers) :
           colIndexToTypeAndProp[c].type = type =>
             LET match == GetMatch(SearchIndex(pods, type),
                                   colIndexToTypeAndProp[c].prop, rows[i][c])
             IN match # Null => IsIn(UsersOfType(rowMatches[i], type), match)
      /\ HasNumError(i, type)
           <=> ~Satisfies(NumPerRow(type), Cardinality(IdsOfType(i, type)))

(***************************************************************************)
(* C24: the only-once rule of one roster and the users of the other        *)
(***************************************************************************)
\* row i has an error of the only-once rule
HasOnlyOnceError(i) ==
  /\ InUnmatchedRows(i)
  /\ \E k \in 1..Len(ErrorsOfRow(i)) : ErrorsOfRow(i)[k].kind = "only once"

\* row i has a user of a roster under the only-once rule that is matched in
\* two or more rows
HasRepeatedUser(i) ==
  \E type \in Types :
    /\ OnlyOnce(type)
    /\ \E k \in 1..NumOfType(i, type) :
         Cardinality(RowsWith(type, UsersOfType(rowMatches[i], type)[k])) >= 2

\* C24: a row has an only-once error only on account of a user it matched
\* from a roster whose only-once rule is on, never on account of a user of the
\* other roster, also when that user has the id of a disqualified one; with
\* no only-once rule on, no user is disqualified.
C24_DisqualifiedWithinItsRoster ==
  pc = "done" =>
    /\ \A i \in 1..Len(rows) : HasOnlyOnceError(i) => HasRepeatedUser(i)
    /\ (~studentOnlyOnce /\ ~teachingTeamMemberOnlyOnce) =>
         /\ DOMAIN isDisqualified = {}
         /\ \A i \in 1..Len(rows) : ~HasOnlyOnceError(i)

(***************************************************************************)
(* C25: the matched and the unmatched rows partition the table             *)
(***************************************************************************)
\* the entries of a list of returned rows that are row i (from 1)
EntriesOfRow(list, i) == {k \in 1..Len(list) : list[k].rowIndex = i - 1}

\* the entries are in strictly increasing order of rowIndex, and each holds
\* the row of the table at its rowIndex
InRowOrder(list) ==
  /\ \A k \in 1..Len(list) :
       /\ list[k].rowIndex \in 0..(Len(rows) - 1)
       /\ list[k].rawRow = rows[list[k].rowIndex + 1]
  /\ \A k \in 1..(Len(list) - 1) : list[k].rowIndex < list[k + 1].rowIndex

\* C25: every row of the table is exactly once in exactly one of matchedRows
\* and unmatchedRows, with the rowIndex of its position in the table; each
\* list is in strictly increasing order of rowIndex, and the two lists have
\* as many entries as the table has rows.
C25_RowsArePartitioned ==
  pc = "done" =>
    /\ \A i \in 1..Len(rows) :
         Cardinality(EntriesOfRow(matchedRows, i))
           + Cardinality(EntriesOfRow(unmatchedRows, i)) = 1
    /\ InRowOrder(matchedRows)
    /\ InRowOrder(unmatchedRows)
    /\ Len(matchedRows) + Len(unmatchedRows) = Len(rows)

\* the row in the middle is matched, the rows around it are not
C25_Witness ==
  /\ pc = "done"
  /\ Len(rows) = 3
  /\ Len(matchedRows) = 1
  /\ matchedRows[1].rowIndex = 1
  /\ Len(unmatchedRows) = 2
  /\ unmatchedRows[1].rowIndex = 0
  /\ unmatchedRows[2].rowIndex = 2

(***************************************************************************)
(* C26: the disqualified users and the order of the rows                   *)
(***************************************************************************)
\* the orders the n rows of a table can come in
RowOrders(n) ==
  {f \in [1..n -> 1..n] : \A i, j \in 1..n : f[i] = f[j] => i = j}

\* the list in the order f
Permuted(list, f) == [k \in 1..Len(list) |-> list[f[k]]]

\* isDisqualified after the calls of findDisqualified for the matches
IsDisqualifiedOf(matches) ==
  LET afterStudents ==
        IF studentOnlyOnce THEN FindDisqualified(matches, STUDENT, <<>>) ELSE <<>>
  IN IF teachingTeamMemberOnlyOnce
       THEN FindDisqualified(matches, TEACHING_TEAM_MEMBER, afterStudents)
       ELSE afterStudents

\* the table in the order f has the same column types and the same matches
\* of each row, the same disqualified users, and the same rows unmatched
SameInOrder(f) ==
  LET matches == Permuted(rowMatches, f)
  IN /\ \A c \in 1..Len(headers) :
          TypeAndProp(pods, Permuted(Cells(c), f)) = colIndexToTypeAndProp[c]
     /\ \A k \in 1..Len(rows) :
          RowMatch(pods, rows[f[k]], colIndexToTypeAndProp) = matches[k]
     /\ TotalNumStudents(matches) = TotalNumStudents(rowMatches)
     /\ TotalNumTeachingTeamMembers(matches) = TotalNumTeachingTeamMembers(rowMatches)
     /\ Cardinality(RowsInCount(matches)) = Cardinality(RowsInCount(rowMatches))
     /\ IsDisqualifiedOf(matches) = isDisqualified
     /\ \A k \in 1..Len(rows) :
          IsUnmatched(matches[k], IsDisqualifiedOf(matches),
                      numStudentsPerRow, numTeachingTeamMembersPerRow)
            <=> InUnmatchedRows(f[k])

\* the disqualified users, and so the matched rows, do not depend on the
\* order of the rows of the table
C26_SameForEveryPermutation ==
  pc = "done" => \A f \in RowOrders(Len(rows)) : SameInOrder(f)

\* C26: with the only-once rule on for a roster, a user of the roster is
\* disqualified exactly when it is among the matches of two or more rows, and
\* the disqualified users and the matched rows are the same for every order
\* of the rows of the table.
C26_DisqualifiedIffInTwoRows ==
  pc = "done" =>
    /\ \A type \in Types : \A k \in 1..Len(RosterOf(type)) :
         OnlyOnce(type) =>
           (RosterOf(type)[k].canvasId \in DOMAIN isDisqualified
              <=> Cardinality(RowsWith(type, RosterOf(type)[k])) >= 2)
    /\ \A f \in RowOrders(Len(rows)) : SameInOrder(f)

====
